---- MODULE Spec2Model ----
(***************************************************************************)
(* Learning-progression engine of the Duobingo backend: the Leitner box    *)
(* scheduler, the quiz / Leitner session lifecycle and the prerequisite    *)
(* checker.  The repository holds two sets of handlers over the same       *)
(* tables: the service layer (app/services, wired by app/main.py and       *)
(* exercised by tests/) and the legacy route handlers (app/routes, wired   *)
(* by main.py).  Both are modelled; `app` says which one is deployed.      *)
(***************************************************************************)
EXTENDS Integers, Sequences, FiniteSets, TLC

\* ------------------------------------------------------------------------
\* Bounds of the model
\* ------------------------------------------------------------------------
\* largest number of Box Entries one level holds in the scheduler inputs
MaxPerBox == 5
\* largest inventory the legacy scheduler is run on
MaxLegacyInventory == 4
\* number of quizzes / modules the catalogue operations may create
MaxQuizzes == 3
MaxModules == 2
\* number of sessions (standard and Leitner together) that may be started
MaxSessions == 2
\* last hour of the clock
MaxClock == 4
\* options of a QCM question in the evaluator specification
MaxOptions == 3
\* length of a submitted text in the evaluator specification
MaxTextLen == 3
\* questions the catalogue holds at a time while it is being changed
MaxQuestions == 2

\* ------------------------------------------------------------------------
\* Program constants
\* ------------------------------------------------------------------------
MinBox == 1
MaxBox == 5
Levels == MinBox..MaxBox

\* BOX_PROBABILITIES, in hundredths (0.50, 0.25, 0.15, 0.07, 0.03)
BOX_PROBABILITIES == <<50, 25, 15, 7, 3>>
\* settings.LEITNER_BOX_WEIGHTS
LEITNER_BOX_WEIGHTS == <<50, 25, 15, 7, 3>>
VALID_QUESTION_COUNTS == {5, 10, 15, 20}
\* quiz_service.MAX_PREREQUISITE_DEPTH and module_service.MAX_PREREQUISITE_DEPTH
MAX_PREREQUISITE_DEPTH == 50

\* session_service.submit_answer: timedelta(hours=2)
SESSION_TIMEOUT_HOURS == 2

\* Python's None (falsy); ids and clock readings are 1, 2, ... (truthy)
None == 0
Truthy(x) == x # None

\* HTTP status codes raised by the handlers
HTTP_200_OK == 200
HTTP_201_CREATED == 201
HTTP_400_BAD_REQUEST == 400
HTTP_403_FORBIDDEN == 403
HTTP_404_NOT_FOUND == 404
HTTP_409_CONFLICT == 409
HTTP_422_UNPROCESSABLE_ENTITY == 422
\* the answer to a request whose handler raises anything but HTTPException
HTTP_500_INTERNAL_SERVER_ERROR == 500

VARIABLES
    \* scheduler called as a function
    boxes_by_level,   \* level -> list of Box Entries handed to the scheduler
    count,            \* requested number of questions
    selected,         \* list returned by the scheduler
    sched_pc,         \* "call" before the call, "service" / "legacy" after it
    \* tables of the catalogue
    quizzes,          \* quiz id -> row of table quizzes
    modules,          \* module id -> row of table modules
    \* the deployed application: "app.main" (service layer) or "main" (legacy)
    app,
    enrolled,                 \* table classroom_students: <<classroom, student>>
    questions,                \* question id -> row of table questions, with its options
    \* tables written by the session handlers
    quiz_sessions,            \* list of rows; the id of a session is its position
    session_answers,          \* rows of table session_answers
    leitner_boxes,            \* rows of table leitner_boxes
    completed_quizzes,        \* list of rows <<student, quiz>>
    completed_modules,        \* list of rows <<student, module>>
    leitner_sessions,         \* list of rows; the id of a session is its position
    leitner_session_answers,  \* rows of table leitner_session_answers
    now,                      \* datetime.utcnow(), in hours
    \* the last request handled and its response
    resp,
    \* the requests being handled: request -> position in its handler and locals
    inflight

schedVars == <<boxes_by_level, count, selected, sched_pc>>
catalogVars == <<quizzes, modules>>
\* the tables the session handlers write
dataVars == <<quiz_sessions, session_answers, leitner_boxes, completed_quizzes,
              completed_modules, leitner_sessions, leitner_session_answers>>
\* what the session handlers only read
staticVars == <<app, enrolled, questions, quizzes, modules, schedVars, inflight>>
sessionVars == <<app, enrolled, questions, dataVars, now, inflight>>
vars == <<boxes_by_level, count, selected, sched_pc, quizzes, modules,
          app, enrolled, questions, quiz_sessions, session_answers, leitner_boxes,
          completed_quizzes, completed_modules, leitner_sessions,
          leitner_session_answers, now, resp, inflight>>

\* no user, no content and no session in the database
NoSessionData ==
    /\ app = "app.main"
    /\ enrolled = {}
    /\ questions = <<>>
    /\ quiz_sessions = <<>>
    /\ session_answers = {}
    /\ leitner_boxes = {}
    /\ completed_quizzes = <<>>
    /\ completed_modules = <<>>
    /\ leitner_sessions = <<>>
    /\ leitner_session_answers = {}
    /\ now = 1

\* no request is being handled: every handler runs from its first to its last
\* line before the next request is taken
NoRequests == <<>>

\* no request handled yet
NoResp == [op |-> "none", status |-> 0, detail |-> ""]

\* ------------------------------------------------------------------------
\* Helpers
\* ------------------------------------------------------------------------
Min(a, b) == IF a <= b THEN a ELSE b
Max(a, b) == IF a >= b THEN a ELSE b

RECURSIVE SumTo(_, _)
\* sum of f[1..n]
SumTo(f, n) == IF n = 0 THEN 0 ELSE f[n] + SumTo(f, n - 1)

Range(s) == {s[i] : i \in 1..Len(s)}

RECURSIVE SetToSeq(_)
\* the elements of a finite set, listed in some fixed order
SetToSeq(S) == IF S = {} THEN <<>>
               ELSE LET x == CHOOSE y \in S : TRUE IN <<x>> \o SetToSeq(S \ {x})

\* the list s rotated left by r places
Rotate(s, r) == [i \in 1..Len(s) |-> s[((i - 1 + r) % Len(s)) + 1]]

\* s[:n]
Prefix(s, n) == SubSeq(s, 1, Min(n, Len(s)))

\* ------------------------------------------------------------------------
\* Box scheduler of the service layer: _select_questions_by_probability
\* ------------------------------------------------------------------------
\* available_counts
AvailableCounts(boxes) == [l \in Levels |-> Len(boxes[l])]

\* BaseTarget with the cap "min(target, available)" left out
BaseTarget_Uncapped(avail, n) == [l \in Levels |-> (n * BOX_PROBABILITIES[l]) \div 100]

\* target = int(count * prob); min(target, available)
BaseTarget(avail, n) == [l \in Levels |-> Min((n * BOX_PROBABILITIES[l]) \div 100, avail[l])]

RECURSIVE FillFrom(_, _, _, _)
\* the loop "for level in [1, 2, 3, 4, 5]" that adds the shortfall
FillFrom(level, avail, targets, remaining) ==
    IF level > MaxBox THEN targets
    ELSE LET available == avail[level] - targets[level]
             to_add == Min(remaining, available)
             t2 == [targets EXCEPT ![level] = @ + to_add]
         IN  IF remaining - to_add = 0 THEN t2
             ELSE FillFrom(level + 1, avail, t2, remaining - to_add)

\* target_counts after the adjustment
TargetCounts(avail, n) ==
    LET base == BaseTarget(avail, n)
        total_selected == SumTo(base, MaxBox)
    IN  IF total_selected < n
        THEN FillFrom(MinBox, avail, base, n - total_selected)
        ELSE base

\* how many entries random.sample draws from a level
SampleSize(boxes, targets, l) ==
    IF targets[l] > 0 /\ Len(boxes[l]) > 0
    THEN Min(targets[l], Len(boxes[l])) ELSE 0

\* the k positions start+1, start+2, ... of a list of n entries, wrapping
Window(n, k, start) == {((start + j) % n) + 1 : j \in 0..k - 1}

\* outcomes of random.sample(box, k): the draws are represented by the
\* windows of k consecutive positions, one per starting position
SampleOutcomes(n, k) ==
    IF k = 0 \/ n = 0 THEN {{}} ELSE {Window(n, k, start) : start \in 0..n - 1}

RECURSIVE SampleChoices(_, _, _)
\* one outcome of random.sample per level, for levels level..5
SampleChoices(boxes, targets, level) ==
    IF level > MaxBox THEN {<<>>}
    ELSE {<<p>> \o rest :
            p \in SampleOutcomes(Len(boxes[level]), SampleSize(boxes, targets, level)),
            rest \in SampleChoices(boxes, targets, level + 1)}

RECURSIVE Extend(_, _, _)
\* selected.extend(...) over the levels in dictionary order 1..5
Extend(boxes, pick, level) ==
    IF level > MaxBox THEN <<>>
    ELSE LET chosen == SetToSeq(pick[level])
         IN  [i \in 1..Len(chosen) |-> boxes[level][chosen[i]]]
             \o Extend(boxes, pick, level + 1)

\* the lists _select_questions_by_probability can return; the outcomes of
\* random.shuffle are represented by the list as built and its rotation by
\* one place
SelectQuestionsByProbability(boxes, n) ==
    LET avail == AvailableCounts(boxes)
        total_available == SumTo(avail, MaxBox)
    IN  IF total_available = 0 THEN {<<>>}
        ELSE LET targets == TargetCounts(avail, n)
             IN  UNION {
                   LET sel == Extend(boxes, pick, MinBox)
                   IN  {Prefix(Rotate(sel, r), n) : r \in {0, 1}}
                   : pick \in SampleChoices(boxes, targets, MinBox)}

\* ------------------------------------------------------------------------
\* Box scheduler of the legacy routes: _select_leitner_questions
\* ------------------------------------------------------------------------
\* active_levels: the levels whose box is not empty when the call starts
ActiveLevels(boxes) == {l \in Levels : Len(boxes[l]) > 0}

\* the level one iteration draws from, when random.random() falls in the
\* cumulative-weight bracket of `bracket`: the first active level from
\* there on whose box is not empty, else active_levels[0]
ChosenLevel(active, boxes, bracket) ==
    LET later == {l \in active : l >= bracket /\ Len(boxes[l]) > 0}
    IN  IF later # {} THEN CHOOSE l \in later : \A m \in later : l <= m
        ELSE CHOOSE l \in active : \A m \in active : l <= m

\* the list s without its i-th element
RemoveAt(s, i) == SubSeq(s, 1, i - 1) \o SubSeq(s, i + 1, Len(s))

\* one iteration of "for _ in range(count)" on a configuration
\* [boxes, selected, stopped]; every outcome of the two random draws
LegacyIteration(active, cfg) ==
    IF cfg.stopped \/ \A l \in active : Len(cfg.boxes[l]) = 0
    THEN {[cfg EXCEPT !.stopped = TRUE]}
    ELSE UNION {
           LET chosen_level == ChosenLevel(active, cfg.boxes, bracket)
               box == cfg.boxes[chosen_level]
           IN  IF Len(box) > 0
               THEN {[boxes |-> [cfg.boxes EXCEPT ![chosen_level] = RemoveAt(@, i)],
                      selected |-> Append(cfg.selected, box[i]),
                      stopped |-> FALSE] : i \in 1..Len(box)}
               ELSE {cfg}
           : bracket \in active}

RECURSIVE LegacyLoop(_, _, _)
\* the configurations after n more iterations
LegacyLoop(active, cfgs, n) ==
    IF n = 0 THEN cfgs
    ELSE LegacyLoop(active, UNION {LegacyIteration(active, c) : c \in cfgs}, n - 1)

\* the lists _select_leitner_questions can return
SelectLeitnerQuestions(boxes, n) ==
    LET active == ActiveLevels(boxes)
    IN  IF active = {} THEN {<<>>}
        ELSE {c.selected :
                c \in LegacyLoop(active,
                                 {[boxes |-> boxes, selected |-> <<>>, stopped |-> FALSE]}, n)}

\* ------------------------------------------------------------------------
\* The scheduler as a function: inputs drawn in Init, one call
\* ------------------------------------------------------------------------
\* an inventory with cnt[l] entries at level l; entry i of level l is <<l, i>>
Inventory(cnt) == [l \in Levels |-> [i \in 1..cnt[l] |-> <<l, i>>]]

InventorySize(boxes) == SumTo(AvailableCounts(boxes), MaxBox)

InitSched ==
    /\ \E cnt \in [Levels -> 0..MaxPerBox] : boxes_by_level = Inventory(cnt)
    /\ count \in VALID_QUESTION_COUNTS
    /\ selected = <<>>
    /\ sched_pc = "call"
    /\ quizzes = <<>>
    /\ modules = <<>>
    /\ resp = NoResp
    /\ inflight = NoRequests
    /\ NoSessionData

CallServiceScheduler ==
    /\ sched_pc = "call"
    /\ selected' \in SelectQuestionsByProbability(boxes_by_level, count)
    /\ sched_pc' = "service"
    /\ UNCHANGED <<boxes_by_level, count, quizzes, modules, resp, sessionVars>>

CallLegacyScheduler ==
    /\ sched_pc = "call"
    /\ InventorySize(boxes_by_level) <= MaxLegacyInventory
    /\ selected' \in SelectLeitnerQuestions(boxes_by_level, count)
    /\ sched_pc' = "legacy"
    /\ UNCHANGED <<boxes_by_level, count, quizzes, modules, resp, sessionVars>>

NextSched == CallServiceScheduler

\* the service-layer scheduler on every inventory
SpecSched == InitSched /\ [][NextSched]_vars

NextSchedBoth == CallServiceScheduler \/ CallLegacyScheduler

\* both schedulers
SpecSchedBoth == InitSched /\ [][NextSchedBoth]_vars

\* ------------------------------------------------------------------------
\* Properties of the scheduler
\* ------------------------------------------------------------------------
InventoryEntries(boxes) == UNION {Range(boxes[l]) : l \in Levels}

NoDuplicates(s) == \A i, j \in 1..Len(s) : i # j => s[i] # s[j]

\* number of entries of the list s that sit at level l of the inventory
DrawnFrom(boxes, s, l) == Cardinality({i \in 1..Len(s) : s[i] \in Range(boxes[l])})

\* the result has exactly min(n, inventory size) entries, all distinct, all
\* taken from the inventory
ExactSelection(boxes, n, s) ==
    /\ Len(s) = Min(n, InventorySize(boxes))
    /\ NoDuplicates(s)
    /\ Range(s) \subseteq InventoryEntries(boxes)

\* C8: for every non-empty inventory and every requested count, whatever the
\* random draws, a scheduler call returns exactly min(n, inventory size)
\* entries, all distinct and all from the inventory.
C8_SchedulerReturnsMinOfCountAndInventory ==
    (sched_pc \in {"service", "legacy"} /\ InventorySize(boxes_by_level) > 0)
        => ExactSelection(boxes_by_level, count, selected)

\* the service-layer scheduler alone does return such a selection
ServiceSchedulerExact ==
    (sched_pc = "service" /\ InventorySize(boxes_by_level) > 0)
        => ExactSelection(boxes_by_level, count, selected)

\* share of the shortfall that back-filling in ascending order gives level l
FloorTarget(n, l) == (n * BOX_PROBABILITIES[l]) \div 100
CappedTarget(avail, n, l) == Min(FloorTarget(n, l), avail[l])
Shortfall(avail, n) ==
    Max(0, n - SumTo([l \in Levels |-> CappedTarget(avail, n, l)], MaxBox))
RoomBelow(avail, n, l) ==
    SumTo([k \in Levels |-> IF k < l THEN avail[k] - CappedTarget(avail, n, k) ELSE 0], MaxBox)
BackfillShare(avail, n, l) ==
    Min(avail[l] - CappedTarget(avail, n, l),
        Max(0, Shortfall(avail, n) - RoomBelow(avail, n, l)))

\* C10: the service scheduler draws from level L exactly
\* min(floor(n * weight[L]), available[L]) plus the share of the shortfall
\* that back-filling levels 1..5 in ascending order assigns to L; with at
\* least 5 entries in every box and n = 20 the selection has 20 entries and
\* at least as many from box 1 as from box 5.
C10_DrawPerLevelIsCappedTargetPlusBackfill ==
    sched_pc = "service" =>
        LET avail == AvailableCounts(boxes_by_level)
        IN  /\ \A l \in Levels :
                  DrawnFrom(boxes_by_level, selected, l)
                      = CappedTarget(avail, count, l) + BackfillShare(avail, count, l)
            /\ ((\A l \in Levels : avail[l] >= 5) /\ count = 20)
                  => /\ Len(selected) = 20
                     /\ DrawnFrom(boxes_by_level, selected, MinBox)
                            >= DrawnFrom(boxes_by_level, selected, MaxBox)

\* a call with 5 entries in every box and 20 requested has returned, and a
\* call on a sparse inventory has been back-filled
C10_Witness ==
    /\ sched_pc = "service"
    /\ \A l \in Levels : Len(boxes_by_level[l]) >= 5
    /\ count = 20
    /\ Len(selected) = 20

\* box 1 holds 3 entries, the other boxes none, 10 requested, 3 returned
SparseInventoryServed ==
    /\ sched_pc = "service"
    /\ Len(boxes_by_level[1]) = 3
    /\ \A l \in Levels \ {1} : Len(boxes_by_level[l]) = 0
    /\ count = 10
    /\ Len(selected) = 3

\* ------------------------------------------------------------------------
\* Prerequisite checker and the catalogue operations of the service layer
\* ------------------------------------------------------------------------
\* the single classroom of the model
TheClassroom == "c1"

\* an id no row has
MissingId(table) == Cardinality(DOMAIN table) + 1

\* table with row `row` stored under `id`
Put(table, id, row) == [k \in DOMAIN table \cup {id} |-> IF k = id THEN row ELSE table[k]]

\* a checker that only notices a quiz that is its own prerequisite
has_circular_quiz_prerequisite_SelfOnly(qs, quiz_id, visited, depth) ==
    /\ quiz_id \in DOMAIN qs
    /\ qs[quiz_id].prerequisite_quiz_id = quiz_id

RECURSIVE has_circular_quiz_prerequisite(_, _, _, _)
\* quiz_service.has_circular_quiz_prerequisite on the flushed table qs
has_circular_quiz_prerequisite(qs, quiz_id, visited, depth) ==
    IF depth > MAX_PREREQUISITE_DEPTH THEN TRUE
    ELSE IF quiz_id \in visited THEN TRUE
    ELSE IF quiz_id \notin DOMAIN qs \/ ~Truthy(qs[quiz_id].prerequisite_quiz_id) THEN FALSE
    ELSE has_circular_quiz_prerequisite(qs, qs[quiz_id].prerequisite_quiz_id,
                                        visited \cup {quiz_id}, depth + 1)

RECURSIVE has_circular_module_prerequisite(_, _, _, _)
\* module_service.has_circular_module_prerequisite on the flushed table ms
has_circular_module_prerequisite(ms, module_id, visited, depth) ==
    IF depth > MAX_PREREQUISITE_DEPTH THEN TRUE
    ELSE IF module_id \in visited THEN TRUE
    ELSE IF module_id \notin DOMAIN ms \/ ~Truthy(ms[module_id].prerequisite_module_id) THEN FALSE
    ELSE has_circular_module_prerequisite(ms, ms[module_id].prerequisite_module_id,
                                          visited \cup {module_id}, depth + 1)

\* response of a catalogue operation; walked says whether the chain walk ran
CatalogResp(op, id, prereq, status, detail, walked) ==
    [op |-> op, id |-> id, prereq |-> prereq, status |-> status,
     detail |-> detail, walked |-> walked]

\* quiz_service.create_quiz; a request that raises is rolled back when the
\* request's database session is closed without commit
create_quiz(module_id, prerequisite_quiz_id, min_score_to_unlock_next, is_active) ==
    LET id == Cardinality(DOMAIN quizzes) + 1
        quiz == [module_id |-> module_id,
                 prerequisite_quiz_id |-> prerequisite_quiz_id,
                 min_score_to_unlock_next |-> min_score_to_unlock_next,
                 is_active |-> is_active]
        flushed == Put(quizzes, id, quiz)
    IN  /\ Cardinality(DOMAIN quizzes) < MaxQuizzes
        /\ IF module_id \notin DOMAIN modules
           THEN /\ resp' = CatalogResp("create_quiz", id, prerequisite_quiz_id,
                                       HTTP_404_NOT_FOUND, "Module not found", FALSE)
                /\ UNCHANGED quizzes
           ELSE IF min_score_to_unlock_next # None /\ min_score_to_unlock_next < 0
           THEN /\ resp' = CatalogResp("create_quiz", id, prerequisite_quiz_id,
                                       HTTP_400_BAD_REQUEST, "minScoreToUnlockNext must be >= 0", FALSE)
                /\ UNCHANGED quizzes
           ELSE IF Truthy(prerequisite_quiz_id) /\ prerequisite_quiz_id \notin DOMAIN quizzes
           THEN /\ resp' = CatalogResp("create_quiz", id, prerequisite_quiz_id,
                                       HTTP_404_NOT_FOUND, "Prerequisite quiz not found", FALSE)
                /\ UNCHANGED quizzes
           ELSE IF Truthy(prerequisite_quiz_id)
                   /\ has_circular_quiz_prerequisite(flushed, id, {}, 0)
           THEN /\ resp' = CatalogResp("create_quiz", id, prerequisite_quiz_id,
                                       HTTP_422_UNPROCESSABLE_ENTITY, "CIRCULAR_PREREQUISITE", TRUE)
                /\ UNCHANGED quizzes
           ELSE /\ resp' = CatalogResp("create_quiz", id, prerequisite_quiz_id,
                                       HTTP_201_CREATED, "", Truthy(prerequisite_quiz_id))
                /\ quizzes' = flushed
        /\ UNCHANGED <<modules, schedVars, sessionVars>>

\* quiz_service.update_quiz
update_quiz(quiz_id, prerequisite_quiz_id, min_score_to_unlock_next, is_active) ==
    LET quiz == quizzes[quiz_id]
        updated == [quiz EXCEPT
                      !.prerequisite_quiz_id =
                          IF prerequisite_quiz_id # None THEN prerequisite_quiz_id ELSE @,
                      !.min_score_to_unlock_next =
                          IF min_score_to_unlock_next # None THEN min_score_to_unlock_next ELSE @,
                      !.is_active = IF is_active # None THEN is_active = 1 ELSE @]
        flushed == Put(quizzes, quiz_id, updated)
    IN  /\ IF quiz_id \notin DOMAIN quizzes
           THEN /\ resp' = CatalogResp("update_quiz", quiz_id, prerequisite_quiz_id,
                                       HTTP_404_NOT_FOUND, "Quiz not found", FALSE)
                /\ UNCHANGED quizzes
           ELSE IF prerequisite_quiz_id # None /\ prerequisite_quiz_id = quiz_id
           THEN /\ resp' = CatalogResp("update_quiz", quiz_id, prerequisite_quiz_id,
                                       HTTP_422_UNPROCESSABLE_ENTITY, "CIRCULAR_PREREQUISITE", FALSE)
                /\ UNCHANGED quizzes
           ELSE IF Truthy(prerequisite_quiz_id) /\ prerequisite_quiz_id \notin DOMAIN quizzes
           THEN /\ resp' = CatalogResp("update_quiz", quiz_id, prerequisite_quiz_id,
                                       HTTP_404_NOT_FOUND, "Prerequisite quiz not found", FALSE)
                /\ UNCHANGED quizzes
           ELSE IF Truthy(prerequisite_quiz_id)
                   /\ has_circular_quiz_prerequisite(flushed, quiz_id, {}, 0)
           THEN /\ resp' = CatalogResp("update_quiz", quiz_id, prerequisite_quiz_id,
                                       HTTP_422_UNPROCESSABLE_ENTITY, "CIRCULAR_PREREQUISITE", TRUE)
                /\ UNCHANGED quizzes
           ELSE /\ resp' = CatalogResp("update_quiz", quiz_id, prerequisite_quiz_id,
                                       HTTP_200_OK, "", Truthy(prerequisite_quiz_id))
                /\ quizzes' = flushed
        /\ UNCHANGED <<modules, schedVars, sessionVars>>

\* module_service.create_module
create_module(classroom_id, prerequisite_module_id) ==
    LET id == Cardinality(DOMAIN modules) + 1
        module == [classroom_id |-> classroom_id,
                   prerequisite_module_id |-> prerequisite_module_id]
        flushed == Put(modules, id, module)
    IN  /\ Cardinality(DOMAIN modules) < MaxModules
        /\ IF classroom_id # TheClassroom
           THEN /\ resp' = CatalogResp("create_module", id, prerequisite_module_id,
                                       HTTP_404_NOT_FOUND, "Classroom not found", FALSE)
                /\ UNCHANGED modules
           ELSE IF Truthy(prerequisite_module_id) /\ prerequisite_module_id \notin DOMAIN modules
           THEN /\ resp' = CatalogResp("create_module", id, prerequisite_module_id,
                                       HTTP_404_NOT_FOUND, "Prerequisite module not found", FALSE)
                /\ UNCHANGED modules
           ELSE IF Truthy(prerequisite_module_id)
                   /\ modules[prerequisite_module_id].classroom_id # classroom_id
           THEN /\ resp' = CatalogResp("create_module", id, prerequisite_module_id,
                                       HTTP_422_UNPROCESSABLE_ENTITY,
                                       "Prerequisite module must be in the same classroom", FALSE)
                /\ UNCHANGED modules
           ELSE IF Truthy(prerequisite_module_id)
                   /\ has_circular_module_prerequisite(flushed, id, {}, 0)
           THEN /\ resp' = CatalogResp("create_module", id, prerequisite_module_id,
                                       HTTP_422_UNPROCESSABLE_ENTITY, "CIRCULAR_PREREQUISITE", TRUE)
                /\ UNCHANGED modules
           ELSE /\ resp' = CatalogResp("create_module", id, prerequisite_module_id,
                                       HTTP_201_CREATED, "", Truthy(prerequisite_module_id))
                /\ modules' = flushed
        /\ UNCHANGED <<quizzes, schedVars, sessionVars>>

\* module_service.update_module
update_module(module_id, prerequisite_module_id) ==
    LET module == modules[module_id]
        updated == [module EXCEPT
                      !.prerequisite_module_id =
                          IF prerequisite_module_id # None THEN prerequisite_module_id ELSE @]
        flushed == Put(modules, module_id, updated)
    IN  /\ IF module_id \notin DOMAIN modules
           THEN /\ resp' = CatalogResp("update_module", module_id, prerequisite_module_id,
                                       HTTP_404_NOT_FOUND, "Module not found", FALSE)
                /\ UNCHANGED modules
           ELSE IF Truthy(prerequisite_module_id) /\ prerequisite_module_id = module_id
           THEN /\ resp' = CatalogResp("update_module", module_id, prerequisite_module_id,
                                       HTTP_422_UNPROCESSABLE_ENTITY, "CIRCULAR_PREREQUISITE", FALSE)
                /\ UNCHANGED modules
           ELSE IF Truthy(prerequisite_module_id) /\ prerequisite_module_id \notin DOMAIN modules
           THEN /\ resp' = CatalogResp("update_module", module_id, prerequisite_module_id,
                                       HTTP_404_NOT_FOUND, "Prerequisite module not found", FALSE)
                /\ UNCHANGED modules
           ELSE IF Truthy(prerequisite_module_id)
                   /\ modules[prerequisite_module_id].classroom_id # module.classroom_id
           THEN /\ resp' = CatalogResp("update_module", module_id, prerequisite_module_id,
                                       HTTP_422_UNPROCESSABLE_ENTITY,
                                       "Prerequisite module must be in the same classroom", FALSE)
                /\ UNCHANGED modules
           ELSE IF Truthy(prerequisite_module_id)
                   /\ has_circular_module_prerequisite(flushed, module_id, {}, 0)
           THEN /\ resp' = CatalogResp("update_module", module_id, prerequisite_module_id,
                                       HTTP_422_UNPROCESSABLE_ENTITY, "CIRCULAR_PREREQUISITE", TRUE)
                /\ UNCHANGED modules
           ELSE /\ resp' = CatalogResp("update_module", module_id, prerequisite_module_id,
                                       HTTP_200_OK, "", Truthy(prerequisite_module_id))
                /\ modules' = flushed
        /\ UNCHANGED <<quizzes, schedVars, sessionVars>>

\* ids a request may name: every row, and one id that has no row
QuizIdInputs == DOMAIN quizzes \cup {MissingId(quizzes)}
ModuleIdInputs == DOMAIN modules \cup {MissingId(modules)}

\* the catalogue starts with one module and no quiz
InitCatalog ==
    /\ quizzes = <<>>
    /\ modules = (1 :> [classroom_id |-> TheClassroom, prerequisite_module_id |-> None])
    /\ resp = NoResp
    /\ inflight = NoRequests
    /\ boxes_by_level = [l \in Levels |-> <<>>]
    /\ count = 5
    /\ selected = <<>>
    /\ sched_pc = "call"
    /\ NoSessionData

CreateQuiz ==
    \E module_id \in {1, MissingId(modules)},
       prerequisite_quiz_id \in QuizIdInputs \cup {None} :
        create_quiz(module_id, prerequisite_quiz_id, 1, TRUE)

UpdateQuiz ==
    \E quiz_id \in QuizIdInputs,
       prerequisite_quiz_id \in QuizIdInputs \cup {None} :
        update_quiz(quiz_id, prerequisite_quiz_id, None, None)

CreateModule ==
    \E prerequisite_module_id \in ModuleIdInputs \cup {None} :
        create_module(TheClassroom, prerequisite_module_id)

UpdateModule ==
    \E module_id \in ModuleIdInputs,
       prerequisite_module_id \in ModuleIdInputs \cup {None} :
        update_module(module_id, prerequisite_module_id)

NextCatalog == CreateQuiz \/ UpdateQuiz \/ CreateModule \/ UpdateModule

\* quiz and module create / update operations of the service layer
SpecCatalog == InitCatalog /\ [][NextCatalog]_vars

\* ------------------------------------------------------------------------
\* The prerequisite relation, stated without the walk of the code
\* ------------------------------------------------------------------------
\* prerequisite of row id in a table of prerequisites, None when it has none
PrereqOf(pre, id) == IF id \in DOMAIN pre /\ Truthy(pre[id]) THEN pre[id] ELSE None

RECURSIVE Ancestor(_, _, _)
\* the row reached from id after k prerequisite steps (None: chain ended)
Ancestor(pre, id, k) == IF k = 0 \/ id = None THEN id ELSE Ancestor(pre, PrereqOf(pre, id), k - 1)

\* id2 is reached from id1 in one or more prerequisite steps
Requires(pre, id1, id2) == \E k \in 1..Cardinality(DOMAIN pre) : Ancestor(pre, id1, k) = id2

NoCycle(pre) == \A id \in DOMAIN pre : ~Requires(pre, id, id)

QuizPrereqs(qs) == [id \in DOMAIN qs |-> qs[id].prerequisite_quiz_id]
ModulePrereqs(ms) == [id \in DOMAIN ms |-> ms[id].prerequisite_module_id]

CircularDependency(r) ==
    r.status = HTTP_422_UNPROCESSABLE_ENTITY /\ r.detail = "CIRCULAR_PREREQUISITE"

\* the update handled in this step asks for a prerequisite that already
\* requires, directly or through a chain, the row being updated
QuizUpdateWouldCycle ==
    /\ resp'.op = "update_quiz"
    /\ resp'.id \in DOMAIN quizzes
    /\ resp'.prereq \in DOMAIN quizzes
    /\ Requires(QuizPrereqs(quizzes), resp'.prereq, resp'.id)

ModuleUpdateWouldCycle ==
    /\ resp'.op = "update_module"
    /\ resp'.id \in DOMAIN modules
    /\ resp'.prereq \in DOMAIN modules
    /\ Requires(ModulePrereqs(modules), resp'.prereq, resp'.id)

QuizSelfPrerequisite ==
    resp'.op = "update_quiz" /\ resp'.id \in DOMAIN quizzes /\ resp'.prereq = resp'.id

ModuleSelfPrerequisite ==
    resp'.op = "update_module" /\ resp'.id \in DOMAIN modules /\ resp'.prereq = resp'.id

\* the relation of the committed tables has no cycle
PrerequisitesAcyclic == NoCycle(QuizPrereqs(quizzes)) /\ NoCycle(ModulePrereqs(modules))

PrerequisiteStep ==
    /\ QuizUpdateWouldCycle => CircularDependency(resp') /\ quizzes' = quizzes
    /\ ModuleUpdateWouldCycle => CircularDependency(resp') /\ modules' = modules
    /\ QuizSelfPrerequisite => CircularDependency(resp') /\ ~resp'.walked /\ quizzes' = quizzes
    /\ ModuleSelfPrerequisite => CircularDependency(resp') /\ ~resp'.walked /\ modules' = modules

\* C7: after every quiz or module create / update the prerequisite relation
\* has no cycle; an update whose new prerequisite already requires the
\* updated row is rejected with CircularDependency and leaves the table
\* unchanged; an update naming the row itself as prerequisite is rejected
\* before the chain walk starts.
C7_PrerequisiteRelationStaysAcyclic == []PrerequisitesAcyclic /\ [][PrerequisiteStep]_vars

\* an update that would close a chain of two quizzes into a cycle was rejected
\* by the chain walk
C7_Witness ==
    /\ resp.op = "update_quiz"
    /\ CircularDependency(resp)
    /\ resp.walked
    /\ resp.id \in DOMAIN quizzes
    /\ resp.prereq \in DOMAIN quizzes
    /\ Requires(QuizPrereqs(quizzes), resp.prereq, resp.id)

\* ------------------------------------------------------------------------
\* Session handlers of the service layer (app/services, app/api/routes)
\* ------------------------------------------------------------------------
\* response of a session request
SessionResp(op, user, session_id, question_id, status, detail) ==
    [op |-> op, user |-> user, session_id |-> session_id, question_id |-> question_id,
     status |-> status, detail |-> detail]

\* response of a start_session request
StartResp(user, quiz_id, session_id, status, detail) ==
    [op |-> "start_session", user |-> user, quiz_id |-> quiz_id, session_id |-> session_id,
     question_id |-> None, status |-> status, detail |-> detail]

\* response of a start_leitner_session request; selected: the questions returned
LeitnerStartResp(user, question_count, session_id, selected_questions, status, detail) ==
    [op |-> "start_leitner_session", user |-> user, question_count |-> question_count,
     session_id |-> session_id, question_id |-> None, selected |-> selected_questions,
     status |-> status, detail |-> detail]

\* the handler raised: nothing was written
Raise(r) == resp' = r /\ UNCHANGED dataVars

\* number of rows of a list-shaped table equal to row
CountRows(table, row) == Cardinality({i \in DOMAIN table : table[i] = row})

\* classroom_service.is_classroom_member, for a student
is_classroom_member(classroom_id, user_id) == <<classroom_id, user_id>> \in enrolled

\* select(Question).where(Question.quiz_id == quiz_id)
QuestionsOfQuiz(quiz_id) == {q \in DOMAIN questions : questions[q].quiz_id = quiz_id}

\* the rows of leitner_boxes of (classroom, student, question)
BoxRows(classroom_id, student_id, question_id) ==
    {b \in leitner_boxes : /\ b.classroom_id = classroom_id
                           /\ b.student_id = student_id
                           /\ b.question_id = question_id}

\* SubmitAnswerDto / SubmitAnswerRequest: every field is optional. A text is
\* a sequence of characters, a pair list a set of <<left, right>> pairs; null
\* marks Python's None
NoText == [null |-> TRUE, chars |-> <<>>]
NoPairs == [null |-> TRUE, pairs |-> {}]
NoClick == [null |-> TRUE, x |-> 0, y |-> 0]

\* a submission that only selects an option (None: no option selected)
ChoiceDto(selected_option_id) ==
    [selected_option_id |-> selected_option_id, text_response |-> NoText,
     matched_pairs |-> NoPairs, clicked_coordinates |-> NoClick]

\* Python truthiness of the optional fields
TruthyText(t) == ~t.null /\ t.chars # <<>>
TruthyPairs(p) == ~p.null /\ p.pairs # {}

\* the answer_data dict POST /sessions/{id}/submit-answer builds: a key is
\* set only when its field is truthy; keys holds the keys that are set
StandardAnswerData(data) ==
    [keys |-> (IF Truthy(data.selected_option_id) THEN {"selected_option_ids"} ELSE {})
              \cup (IF TruthyText(data.text_response) THEN {"text_answer"} ELSE {})
              \cup (IF TruthyPairs(data.matched_pairs) THEN {"pairs"} ELSE {})
              \cup (IF ~data.clicked_coordinates.null
                    THEN {"clicked_coordinates"} ELSE {}),
     selected_option_ids |-> IF Truthy(data.selected_option_id)
                             THEN {data.selected_option_id} ELSE {},
     text_answer |-> IF TruthyText(data.text_response) THEN data.text_response ELSE NoText,
     pairs |-> IF TruthyPairs(data.matched_pairs) THEN data.matched_pairs ELSE NoPairs,
     clicked_coordinates |-> data.clicked_coordinates]

\* the answer_data dict POST /leitner/sessions/{sid}/submit-answer builds:
\* both keys are always set, text_answer possibly to None
LeitnerAnswerData(data) ==
    [keys |-> {"selected_option_ids", "text_answer"},
     selected_option_ids |-> IF Truthy(data.selected_option_id)
                             THEN {data.selected_option_id} ELSE {},
     text_answer |-> data.text_response,
     pairs |-> NoPairs,
     clicked_coordinates |-> NoClick]

\* the answer_data of a submission that only selects an option
AnswerData(selected_option_id) == StandardAnswerData(ChoiceDto(selected_option_id))

\* ids of the options flagged is_correct
CorrectIds(question) == {opt.id : opt \in {o \in question.options : o.is_correct}}

\* characters of the texts: two letters, one of them in both cases, and
\* a blank
Characters == {"a", "A", "b", " "}

\* str.lower() and str.strip()
LowerChar(c) == IF c = "A" THEN "a" ELSE c
Lower(s) == [i \in DOMAIN s |-> LowerChar(s[i])]

RECURSIVE LStrip(_)
LStrip(s) == IF s # <<>> /\ Head(s) = " " THEN LStrip(Tail(s)) ELSE s

RECURSIVE RStrip(_)
RStrip(s) ==
    IF s # <<>> /\ s[Len(s)] = " " THEN RStrip(SubSeq(s, 1, Len(s) - 1)) ELSE s

Strip(s) == LStrip(RStrip(s))

\* (dx * dx + dy * dy) ** 0.5 <= zone.radius, on integer coordinates
InZone(x, y, zone) ==
    /\ zone.radius >= 0
    /\ (x - zone.x) * (x - zone.x) + (y - zone.y) * (y - zone.y)
         <= zone.radius * zone.radius

\* answer_data.get(key, default) for the text key
GetText(answer_data, default) ==
    IF "text_answer" \in answer_data.keys THEN answer_data.text_answer ELSE default

\* the answer to a submit whose evaluation raised; the request is kept
ServerError(op, user, session_id, question_id, answer_data) ==
    [op |-> op, user |-> user, session_id |-> session_id, question_id |-> question_id,
     status |-> HTTP_500_INTERNAL_SERVER_ERROR, detail |-> "Internal Server Error",
     answer_data |-> answer_data]

\* session_service.evaluate_answer raises instead of returning: for VRAI_FAUX,
\* scalar_one_or_none() finds more than one correct option; for TEXT,
\* .strip() is called on None when the key text_answer holds None
evaluate_answer_raises(question, answer_data) ==
    IF question.type = "VRAI_FAUX"
    THEN Cardinality(CorrectIds(question)) > 1
    ELSE IF question.type = "TEXT"
    THEN GetText(answer_data, [null |-> FALSE, chars |-> <<>>]).null
    ELSE FALSE

\* session_service.evaluate_answer
evaluate_answer(question, answer_data) ==
    IF question.type = "QCM"
    THEN LET selected_option_ids == IF "selected_option_ids" \in answer_data.keys
                                    THEN answer_data.selected_option_ids ELSE {}
         IN  selected_option_ids = CorrectIds(question)
    ELSE IF question.type = "VRAI_FAUX"
    THEN \* answer_data.get("selected_option_id"): neither route sets this key
         LET selected_option_id == None
         IN  \E correct_option \in CorrectIds(question) :
                selected_option_id = correct_option
    ELSE IF question.type = "TEXT"
    THEN LET config == question.text_config
             user_answer == Strip(GetText(answer_data,
                                          [null |-> FALSE, chars |-> <<>>]).chars)
             expected == Strip(config.accepted_answer)
         IN  IF config.is_case_sensitive
             THEN user_answer = expected
             ELSE Lower(user_answer) = Lower(expected)
    ELSE IF question.type = "MATCHING"
    THEN LET pairs == IF "pairs" \in answer_data.keys THEN answer_data.pairs.pairs ELSE {}
             correct_pairs == {<<pair.item_left, pair.item_right>> :
                                 pair \in question.matching_pairs}
         IN  pairs = correct_pairs
    ELSE IF question.type = "IMAGE"
    THEN IF "clicked_coordinates" \in answer_data.keys
         THEN LET clicked == answer_data.clicked_coordinates
              IN  \E zone \in question.image_zones : InZone(clicked.x, clicked.y, zone)
         ELSE \* fallback on selected_zone_ids, a key no route sets
              LET selected_zone_ids == {}
                  correct_zone_ids == {zone.id : zone \in question.image_zones}
              IN  selected_zone_ids = correct_zone_ids
    ELSE FALSE

\* session.status != SessionStatus.IN_PROGRESS never holds
StatusClosed_Never(session) == FALSE

\* session.status != SessionStatus.IN_PROGRESS
StatusClosed(session) == session.status # "IN_PROGRESS"

\* datetime.utcnow() - session.started_at > timedelta(hours=2)
TimedOut(session) == now - session.started_at > SESSION_TIMEOUT_HOURS

\* the duplicate lookup of submit_answer finds nothing
AlreadyAnswered_Never(session_id, question_id) == FALSE

\* select(SessionAnswer).where(session_id, question_id) finds a row
AlreadyAnswered(session_id, question_id) ==
    \E a \in session_answers : a.session_id = session_id /\ a.question_id = question_id

\* the lookup of the prerequisite module's completion always finds a row
PrerequisiteModuleLocked_Never(module, user) == FALSE

\* start_session: the module declares a prerequisite and the student has no
\* CompletedModule row for it
PrerequisiteModuleLocked(module, user) ==
    /\ Truthy(module.prerequisite_module_id)
    /\ CountRows(completed_modules, <<user, module.prerequisite_module_id>>) = 0

\* start_session: the quiz declares a prerequisite and the student has no
\* CompletedQuiz row for it
PrerequisiteQuizLocked(quiz, user) ==
    /\ Truthy(quiz.prerequisite_quiz_id)
    /\ CountRows(completed_quizzes, <<user, quiz.prerequisite_quiz_id>>) = 0

\* session_service.start_session
start_session(quiz_id, user) ==
    LET quiz == quizzes[quiz_id]
        module == modules[quiz.module_id]
        question_count == Cardinality(QuestionsOfQuiz(quiz_id))
        session == [quiz_id |-> quiz_id, student_id |-> user,
                    classroom_id |-> module.classroom_id, status |-> "IN_PROGRESS",
                    total_score |-> 0, max_score |-> question_count, passed |-> FALSE,
                    started_at |-> now, completed_at |-> None]
    IN  /\ IF quiz_id \notin DOMAIN quizzes
           THEN Raise(StartResp(user, quiz_id, None, HTTP_404_NOT_FOUND, "Quiz not found"))
           ELSE IF ~quiz.is_active
           THEN Raise(StartResp(user, quiz_id, None, HTTP_403_FORBIDDEN, "QUIZ_INACTIVE"))
           ELSE IF quiz.module_id \notin DOMAIN modules
           THEN Raise(StartResp(user, quiz_id, None, HTTP_404_NOT_FOUND, "Module not found"))
           ELSE IF ~is_classroom_member(module.classroom_id, user)
           THEN Raise(StartResp(user, quiz_id, None, HTTP_403_FORBIDDEN, "INSUFFICIENT_PERMISSIONS"))
           ELSE IF PrerequisiteQuizLocked(quiz, user)
           THEN Raise(StartResp(user, quiz_id, None, HTTP_403_FORBIDDEN, "QUIZ_LOCKED"))
           ELSE IF PrerequisiteModuleLocked(module, user)
           THEN Raise(StartResp(user, quiz_id, None, HTTP_403_FORBIDDEN, "MODULE_LOCKED"))
           ELSE /\ quiz_sessions' = Append(quiz_sessions, session)
                /\ resp' = StartResp(user, quiz_id, Len(quiz_sessions) + 1, HTTP_200_OK, "")
                /\ UNCHANGED <<session_answers, leitner_boxes, completed_quizzes,
                               completed_modules, leitner_sessions, leitner_session_answers>>
        /\ UNCHANGED <<staticVars, now>>

\* session_service.submit_answer
submit_answer(session_id, question_id, answer_data, user) ==
    LET op == "submit_answer"
        session == quiz_sessions[session_id]
        question == questions[question_id]
        is_correct == evaluate_answer(question, answer_data)
        answer == [session_id |-> session_id, question_id |-> question_id,
                   is_correct |-> is_correct, answer_data |-> answer_data]
    IN  /\ IF session_id \notin DOMAIN quiz_sessions
           THEN Raise(SessionResp(op, user, session_id, question_id,
                                  HTTP_404_NOT_FOUND, "SESSION_NOT_FOUND"))
           ELSE IF session.student_id # user
           THEN Raise(SessionResp(op, user, session_id, question_id,
                                  HTTP_403_FORBIDDEN, "INSUFFICIENT_PERMISSIONS"))
           ELSE IF StatusClosed(session)
           THEN Raise(SessionResp(op, user, session_id, question_id,
                                  HTTP_400_BAD_REQUEST, "SESSION_ALREADY_FINISHED"))
           ELSE IF TimedOut(session)
           THEN /\ quiz_sessions' = [quiz_sessions EXCEPT ![session_id].status = "ABANDONED"]
                /\ resp' = SessionResp(op, user, session_id, question_id,
                                       HTTP_400_BAD_REQUEST, "SESSION_ALREADY_FINISHED")
                /\ UNCHANGED <<session_answers, leitner_boxes, completed_quizzes,
                               completed_modules, leitner_sessions, leitner_session_answers>>
           ELSE IF question_id \notin DOMAIN questions
           THEN Raise(SessionResp(op, user, session_id, question_id,
                                  HTTP_400_BAD_REQUEST, "QUESTION_NOT_IN_SESSION"))
           ELSE IF question.quiz_id # session.quiz_id
           THEN Raise(SessionResp(op, user, session_id, question_id,
                                  HTTP_400_BAD_REQUEST, "QUESTION_NOT_IN_SESSION"))
           ELSE IF AlreadyAnswered(session_id, question_id)
           THEN Raise(SessionResp(op, user, session_id, question_id,
                                  HTTP_409_CONFLICT, "Question already answered"))
           ELSE IF evaluate_answer_raises(question, answer_data)
           THEN Raise(ServerError(op, user, session_id, question_id, answer_data))
           ELSE /\ session_answers' = session_answers \cup {answer}
                /\ resp' = [SessionResp(op, user, session_id, question_id, HTTP_200_OK, "")
                              EXCEPT !.detail = IF is_correct THEN "Correct!" ELSE "Incorrect"]
                /\ UNCHANGED <<quiz_sessions, leitner_boxes, completed_quizzes,
                               completed_modules, leitner_sessions, leitner_session_answers>>
        /\ UNCHANGED <<staticVars, now>>

\* the lookup of _complete_quiz finds no completion row
HasCompletedQuiz_Never(done, student_id, quiz_id) == FALSE

\* select(CompletedQuiz).where(student_id, quiz_id) finds a row
HasCompletedQuiz(done, student_id, quiz_id) == CountRows(done, <<student_id, quiz_id>>) > 0

\* completed_modules after session_service._check_module_completion
check_module_completion(done_quizzes, module_id, student_id) ==
    LET required_quizzes == {q \in DOMAIN quizzes :
                               /\ quizzes[q].module_id = module_id
                               /\ quizzes[q].min_score_to_unlock_next > 0}
    IN  IF \E q \in required_quizzes : CountRows(done_quizzes, <<student_id, q>>) = 0
        THEN completed_modules
        ELSE IF CountRows(completed_modules, <<student_id, module_id>>) = 0
        THEN Append(completed_modules, <<student_id, module_id>>)
        ELSE completed_modules

\* a new row of leitner_boxes
NewBoxEntry(classroom_id, student_id, question_id) ==
    [classroom_id |-> classroom_id, student_id |-> student_id,
     question_id |-> question_id, box_level |-> MinBox, last_reviewed_at |-> None]

\* the tables after session_service._complete_quiz
complete_quiz(quiz_id, student_id, classroom_id) ==
    LET done == IF HasCompletedQuiz(completed_quizzes, student_id, quiz_id)
                THEN completed_quizzes
                ELSE Append(completed_quizzes, <<student_id, quiz_id>>)
        seeded == {NewBoxEntry(classroom_id, student_id, q) :
                     q \in {x \in QuestionsOfQuiz(quiz_id) :
                              BoxRows(classroom_id, student_id, x) = {}}}
    IN  [completed_quizzes |-> done,
         leitner_boxes |-> leitner_boxes \cup seeded,
         completed_modules |-> IF quiz_id \in DOMAIN quizzes
                               THEN check_module_completion(done, quizzes[quiz_id].module_id,
                                                            student_id)
                               ELSE completed_modules]

\* every finished session counts as passed
IsPassed_Always(total_score, quiz) == TRUE

\* session.passed = session.total_score >= quiz.min_score_to_unlock_next
IsPassed(total_score, quiz) == total_score >= quiz.min_score_to_unlock_next

\* session_service.finish_session
finish_session(session_id, user) ==
    LET op == "finish_session"
        session == quiz_sessions[session_id]
        correct_count == Cardinality({a \in session_answers :
                                        a.session_id = session_id /\ a.is_correct})
        quiz == quizzes[session.quiz_id]
        passed == IsPassed(correct_count, quiz)
        finished == [session EXCEPT !.total_score = correct_count,
                                    !.status = "COMPLETED",
                                    !.completed_at = now,
                                    !.passed = passed]
        after == complete_quiz(session.quiz_id, user, session.classroom_id)
    IN  /\ IF session_id \notin DOMAIN quiz_sessions
           THEN Raise(SessionResp(op, user, session_id, None,
                                  HTTP_404_NOT_FOUND, "SESSION_NOT_FOUND"))
           ELSE IF session.student_id # user
           THEN Raise(SessionResp(op, user, session_id, None,
                                  HTTP_403_FORBIDDEN, "INSUFFICIENT_PERMISSIONS"))
           ELSE IF StatusClosed(session)
           THEN Raise(SessionResp(op, user, session_id, None,
                                  HTTP_400_BAD_REQUEST, "SESSION_ALREADY_FINISHED"))
           ELSE /\ quiz_sessions' = [quiz_sessions EXCEPT ![session_id] = finished]
                /\ IF passed
                   THEN /\ completed_quizzes' = after.completed_quizzes
                        /\ leitner_boxes' = after.leitner_boxes
                        /\ completed_modules' = after.completed_modules
                   ELSE UNCHANGED <<completed_quizzes, leitner_boxes, completed_modules>>
                /\ resp' = SessionResp(op, user, session_id, None, HTTP_200_OK, "")
                /\ UNCHANGED <<session_answers, leitner_sessions, leitner_session_answers>>
        /\ UNCHANGED <<staticVars, now>>

\* ------------------------------------------------------------------------
\* Leitner session handlers of the service layer
\* ------------------------------------------------------------------------
\* a correct answer always promotes
NewBox_Uncapped(previous_box, is_correct) ==
    IF is_correct THEN previous_box + 1 ELSE MinBox

\* new_box = min(previous_box + 1, 5) if is_correct else 1
NewBox(previous_box, is_correct) ==
    IF is_correct THEN Min(previous_box + 1, MaxBox) ELSE MinBox

\* session.completed_at is never seen as set
Finished_Never(session) == FALSE

\* if session.completed_at:
Finished(session) == Truthy(session.completed_at)

\* the duplicate lookup of submit_leitner_answer finds nothing
AlreadyAnsweredLeitner_Never(session_id, question_id) == FALSE

\* select(LeitnerSessionAnswer).where(session_id, question_id) finds a row
AlreadyAnsweredLeitner(session_id, question_id) ==
    \E a \in leitner_session_answers :
        a.session_id = session_id /\ a.question_id = question_id

\* boxes_by_level of start_leitner_session
GroupByLevel(boxes) == [l \in Levels |-> SetToSeq({b \in boxes : b.box_level = l})]

\* leitner_service.start_leitner_session
start_leitner_session(classroom_id, question_count, user) ==
    LET boxes == {b \in leitner_boxes : b.classroom_id = classroom_id /\ b.student_id = user}
    IN  /\ IF ~is_classroom_member(classroom_id, user)
           THEN Raise(LeitnerStartResp(user, question_count, None, {},
                                  HTTP_403_FORBIDDEN, "INSUFFICIENT_PERMISSIONS"))
           ELSE IF question_count \notin VALID_QUESTION_COUNTS
           THEN Raise(LeitnerStartResp(user, question_count, None, {},
                                  HTTP_400_BAD_REQUEST, "INVALID_QUESTION_COUNT"))
           ELSE IF boxes = {}
           THEN Raise(LeitnerStartResp(user, question_count, None, {},
                                  HTTP_400_BAD_REQUEST, "LEITNER_NO_QUESTIONS"))
           ELSE \E selected_boxes \in SelectQuestionsByProbability(GroupByLevel(boxes),
                                                                   question_count) :
                  LET adjusted == IF Len(selected_boxes) < question_count
                                  THEN Len(selected_boxes) ELSE question_count
                      session == [classroom_id |-> classroom_id, student_id |-> user,
                                  question_count |-> adjusted,
                                  correct_answers |-> 0, wrong_answers |-> 0,
                                  promoted |-> 0, demoted |-> 0,
                                  started_at |-> now, completed_at |-> None]
                  IN  IF adjusted = 0
                      THEN Raise(LeitnerStartResp(user, question_count, None, {},
                                                  HTTP_400_BAD_REQUEST,
                                                  "LEITNER_NO_QUESTIONS"))
                      ELSE /\ leitner_sessions' = Append(leitner_sessions, session)
                           /\ resp' = LeitnerStartResp(user, question_count,
                                           Len(leitner_sessions) + 1,
                                           {selected_boxes[i].question_id :
                                              i \in DOMAIN selected_boxes},
                                           HTTP_200_OK, "")
                           /\ UNCHANGED <<quiz_sessions, session_answers, leitner_boxes,
                                          completed_quizzes, completed_modules,
                                          leitner_session_answers>>
        /\ UNCHANGED <<staticVars, now>>

\* leitner_service.submit_leitner_answer
submit_leitner_answer(session_id, question_id, answer_data, user) ==
    LET op == "submit_leitner_answer"
        session == leitner_sessions[session_id]
        question == questions[question_id]
        rows == BoxRows(session.classroom_id, user, question_id)
        leitner_box == CHOOSE b \in rows : TRUE
        is_correct == evaluate_answer(question, answer_data)
        previous_box == leitner_box.box_level
        answer == [session_id |-> session_id, question_id |-> question_id,
                   is_correct |-> is_correct, previous_box |-> previous_box,
                   new_box |-> NewBox(previous_box, is_correct),
                   answer_data |-> answer_data]
    IN  /\ IF session_id \notin DOMAIN leitner_sessions
           THEN Raise(SessionResp(op, user, session_id, question_id,
                                  HTTP_404_NOT_FOUND, "SESSION_NOT_FOUND"))
           ELSE IF session.student_id # user
           THEN Raise(SessionResp(op, user, session_id, question_id,
                                  HTTP_403_FORBIDDEN, "INSUFFICIENT_PERMISSIONS"))
           ELSE IF Finished(session)
           THEN Raise(SessionResp(op, user, session_id, question_id,
                                  HTTP_400_BAD_REQUEST, "SESSION_ALREADY_FINISHED"))
           ELSE IF AlreadyAnsweredLeitner(session_id, question_id)
           THEN Raise(SessionResp(op, user, session_id, question_id,
                                  HTTP_409_CONFLICT, "Question already answered"))
           ELSE IF question_id \notin DOMAIN questions
           THEN Raise(SessionResp(op, user, session_id, question_id,
                                  HTTP_404_NOT_FOUND, "Question not found"))
           ELSE IF rows = {}
           THEN Raise(SessionResp(op, user, session_id, question_id,
                                  HTTP_404_NOT_FOUND, "Question not in Leitner boxes"))
           ELSE IF evaluate_answer_raises(question, answer_data)
           THEN Raise(ServerError(op, user, session_id, question_id, answer_data))
           ELSE /\ leitner_session_answers' = leitner_session_answers \cup {answer}
                /\ resp' = [SessionResp(op, user, session_id, question_id, HTTP_200_OK, "")
                              EXCEPT !.detail = IF is_correct THEN "Correct!" ELSE "Incorrect"]
                /\ UNCHANGED <<quiz_sessions, session_answers, leitner_boxes,
                               completed_quizzes, completed_modules, leitner_sessions>>
        /\ UNCHANGED <<staticVars, now>>

\* the finish step leaves the level of the entry as it is
AppliedLevel_Keep(leitner_box, answer) == leitner_box.box_level

\* leitner_box.box_level = answer.new_box
AppliedLevel(leitner_box, answer) == answer.new_box

\* leitner_service.finish_leitner_session
finish_leitner_session(session_id, user) ==
    LET op == "finish_leitner_session"
        session == leitner_sessions[session_id]
        answers == {a \in leitner_session_answers : a.session_id = session_id}
        \* the answers whose Box Entry is found
        applied == {a \in answers : BoxRows(session.classroom_id, user, a.question_id) # {}}
        AnswerOf(b) == CHOOSE a \in applied : a.question_id = b.question_id
        IsReviewed(b) == /\ b.classroom_id = session.classroom_id
                       /\ b.student_id = user
                       /\ \E a \in applied : a.question_id = b.question_id
        finished == [session EXCEPT
                       !.correct_answers = Cardinality({a \in applied : a.is_correct}),
                       !.wrong_answers = Cardinality({a \in applied : ~a.is_correct}),
                       !.promoted = Cardinality({a \in applied :
                                       a.is_correct /\ a.new_box > a.previous_box}),
                       !.demoted = Cardinality({a \in applied :
                                       ~a.is_correct /\ a.new_box < a.previous_box}),
                       !.completed_at = now]
    IN  /\ IF session_id \notin DOMAIN leitner_sessions
           THEN Raise(SessionResp(op, user, session_id, None,
                                  HTTP_404_NOT_FOUND, "SESSION_NOT_FOUND"))
           ELSE IF session.student_id # user
           THEN Raise(SessionResp(op, user, session_id, None,
                                  HTTP_403_FORBIDDEN, "INSUFFICIENT_PERMISSIONS"))
           ELSE IF Finished(session)
           THEN Raise(SessionResp(op, user, session_id, None,
                                  HTTP_400_BAD_REQUEST, "SESSION_ALREADY_FINISHED"))
           ELSE /\ leitner_boxes' =
                      {IF IsReviewed(b)
                       THEN [b EXCEPT !.box_level = AppliedLevel(b, AnswerOf(b)),
                                      !.last_reviewed_at = now]
                       ELSE b : b \in leitner_boxes}
                /\ leitner_sessions' = [leitner_sessions EXCEPT ![session_id] = finished]
                /\ resp' = SessionResp(op, user, session_id, None, HTTP_200_OK, "")
                /\ UNCHANGED <<quiz_sessions, session_answers, completed_quizzes,
                               completed_modules, leitner_session_answers>>
        /\ UNCHANGED <<staticVars, now>>

\* ------------------------------------------------------------------------
\* The deployed service layer: one classroom, its content, two students
\* ------------------------------------------------------------------------
\* the student whose requests are followed; she is enrolled in the classroom
Users == {"alice"}

\* quiz 1 holds one QCM question and is passed with one correct answer;
\* quiz 2 requires quiz 1, holds no question and does not gate the module
Catalogue ==
    /\ modules = (1 :> [classroom_id |-> TheClassroom, prerequisite_module_id |-> None])
    /\ quizzes = (1 :> [module_id |-> 1, prerequisite_quiz_id |-> None,
                        min_score_to_unlock_next |-> 1, is_active |-> TRUE]
                  @@ 2 :> [module_id |-> 1, prerequisite_quiz_id |-> 1,
                           min_score_to_unlock_next |-> 0, is_active |-> TRUE])
    /\ questions = [q \in {1} |->
                      [quiz_id |-> 1, type |-> "QCM",
                       options |-> {[id |-> 1, is_correct |-> TRUE],
                                    [id |-> 2, is_correct |-> FALSE]}]]
    /\ enrolled = {<<TheClassroom, "alice">>}

\* alice has not opened any quiz yet
Fresh ==
    /\ leitner_boxes = {}
    /\ completed_quizzes = <<>>
    /\ completed_modules = <<>>

\* alice passed quiz 1 earlier and reviewed its question up to box `level`;
\* sessions finished before the first step are not kept in the tables (no
\* handler reads the rows of another session)
Reviewed(level) ==
    /\ leitner_boxes = {[NewBoxEntry(TheClassroom, "alice", 1)
                           EXCEPT !.box_level = level, !.last_reviewed_at = 1]}
    /\ completed_quizzes = << <<"alice", 1>> >>
    /\ completed_modules = << <<"alice", 1>> >>

InitSessions(deployed) ==
    /\ app = deployed
    /\ Catalogue
    /\ Fresh \/ \E level \in {3, MaxBox} : Reviewed(level)
    /\ quiz_sessions = <<>>
    /\ session_answers = {}
    /\ leitner_sessions = <<>>
    /\ leitner_session_answers = {}
    /\ now = 1
    /\ resp = NoResp
    /\ inflight = NoRequests
    /\ boxes_by_level = [l \in Levels |-> <<>>]
    /\ count = 5
    /\ selected = <<>>
    /\ sched_pc = "call"

Init == InitSessions("app.main")

\* requests may start a session while fewer than MaxSessions were started
MayStart == Len(quiz_sessions) + Len(leitner_sessions) < MaxSessions

StartSession ==
    /\ app = "app.main" /\ MayStart
    /\ \E user \in Users, quiz_id \in DOMAIN quizzes :
        start_session(quiz_id, user)

SubmitAnswer ==
    /\ app = "app.main"
    /\ \E user \in Users,
          session_id \in DOMAIN quiz_sessions,
          question_id \in DOMAIN questions,
          selected_option_id \in {1, 2} :
        submit_answer(session_id, question_id, AnswerData(selected_option_id), user)

FinishSession ==
    /\ app = "app.main"
    /\ \E user \in Users,
          session_id \in DOMAIN quiz_sessions :
        finish_session(session_id, user)

StartLeitnerSession ==
    /\ app = "app.main" /\ MayStart
    /\ \E user \in Users, question_count \in {5, 7} :
        start_leitner_session(TheClassroom, question_count, user)

SubmitLeitnerAnswer ==
    /\ app = "app.main"
    /\ \E user \in Users,
          session_id \in DOMAIN leitner_sessions,
          question_id \in DOMAIN questions,
          selected_option_id \in {1, 2} :
        submit_leitner_answer(session_id, question_id,
                              LeitnerAnswerData(ChoiceDto(selected_option_id)), user)

FinishLeitnerSession ==
    /\ app = "app.main"
    /\ \E user \in Users,
          session_id \in DOMAIN leitner_sessions :
        finish_leitner_session(session_id, user)

\* time passes, one hour more than the session timeout; no request is handled
Tick ==
    /\ now + SESSION_TIMEOUT_HOURS + 1 <= MaxClock
    /\ now' = now + SESSION_TIMEOUT_HOURS + 1
    /\ resp' = NoResp
    /\ UNCHANGED <<staticVars, dataVars>>

Next ==
    \/ StartSession \/ SubmitAnswer \/ FinishSession
    \/ StartLeitnerSession \/ SubmitLeitnerAnswer \/ FinishLeitnerSession
    \/ Tick

\* the session lifecycle of the service layer
Spec == Init /\ [][Next]_vars

\* ------------------------------------------------------------------------
\* Session handlers of the legacy routes (app/routes/session.py, leitner.py)
\* ------------------------------------------------------------------------
\* response of a legacy submit: the verdict travels in is_correct
LegacyAnswerResult(op, user, session_id, question_id, is_correct) ==
    [op |-> op, user |-> user, session_id |-> session_id, question_id |-> question_id,
     status |-> HTTP_200_OK, detail |-> "", is_correct |-> is_correct]

\* the inner loop of _levenshtein_distance: current_row extended over
\* s2[j..], for the character c1 of s1
RECURSIVE CurrentRow(_, _, _, _, _)
CurrentRow(previous_row, current_row, c1, s2, j) ==
    IF j > Len(s2) THEN current_row
    ELSE LET insertions == previous_row[j + 1] + 1
             deletions == current_row[j] + 1
             substitutions == previous_row[j] + (IF c1 # s2[j] THEN 1 ELSE 0)
         IN  CurrentRow(previous_row,
                        Append(current_row, Min(Min(insertions, deletions), substitutions)),
                        c1, s2, j + 1)

\* the outer loop of _levenshtein_distance over s1[i..]
RECURSIVE LastRow(_, _, _, _)
LastRow(previous_row, s1, s2, i) ==
    IF i > Len(s1) THEN previous_row
    ELSE LastRow(CurrentRow(previous_row, <<i>>, s1[i], s2, 1), s1, s2, i + 1)

\* the distance computed without the bound on the tolerated difference
levenshtein_distance_Zero(s1, s2) == 0

\* routes/session.py _levenshtein_distance
levenshtein_distance(s1, s2) ==
    LET long == IF Len(s1) < Len(s2) THEN s2 ELSE s1
        short == IF Len(s1) < Len(s2) THEN s1 ELSE s2
    IN  IF Len(short) = 0 THEN Len(long)
        ELSE LastRow([j \in 1..(Len(short) + 1) |-> j - 1], long, short, 1)[Len(short) + 1]

\* routes/session.py _check_answer
check_answer(question, request) ==
    IF question.type \in {"QCM", "VRAI_FAUX"}
    THEN /\ Truthy(request.selected_option_id)
         /\ \E option \in question.options :
               option.id = request.selected_option_id /\ option.is_correct
    ELSE IF question.type = "TEXT"
    THEN IF ~TruthyText(request.text_response)
         THEN FALSE
         ELSE LET config == question.text_config
                  accepted == IF config.is_case_sensitive THEN config.accepted_answer
                              ELSE Lower(config.accepted_answer)
                  response == IF config.is_case_sensitive THEN request.text_response.chars
                              ELSE Lower(request.text_response.chars)
              IN  IF config.ignore_spelling_errors
                  THEN levenshtein_distance(accepted, response) <= 2
                  ELSE accepted = response
    ELSE IF question.type = "MATCHING"
    THEN IF ~TruthyPairs(request.matched_pairs)
         THEN FALSE
         ELSE LET correct == Cardinality({mp \in request.matched_pairs.pairs :
                                            mp[1] = mp[2]})
              IN  correct = Cardinality({p.id : p \in question.matching_pairs})
    ELSE IF question.type = "IMAGE"
    THEN IF request.clicked_coordinates.null
         THEN FALSE
         ELSE \E zone \in question.image_zones :
                InZone(request.clicked_coordinates.x, request.clicked_coordinates.y, zone)
    ELSE FALSE

\* routes/session.py _get_session_or_404 and routes/leitner.py
\* _get_leitner_session_or_404 find a row
OwnSession(sessions, session_id, user) ==
    session_id \in DOMAIN sessions /\ sessions[session_id].student_id = user

\* completed_modules after routes/session.py _check_module_completion
legacy_check_module_completion(done_quizzes, module_id, student_id) ==
    LET required_quizzes == {q \in DOMAIN quizzes :
                               /\ quizzes[q].module_id = module_id
                               /\ quizzes[q].min_score_to_unlock_next > 0}
    IN  IF module_id \notin DOMAIN modules THEN completed_modules
        ELSE IF required_quizzes = {} THEN completed_modules
        ELSE IF \E q \in required_quizzes : CountRows(done_quizzes, <<student_id, q>>) = 0
        THEN completed_modules
        ELSE IF CountRows(completed_modules, <<student_id, module_id>>) = 0
        THEN Append(completed_modules, <<student_id, module_id>>)
        ELSE completed_modules

\* routes/session.py start_session
legacy_start_session(quiz_id, user) ==
    LET op == "legacy_start_session"
        quiz == quizzes[quiz_id]
        module == modules[quiz.module_id]
        quiz_questions == QuestionsOfQuiz(quiz_id)
        session == [quiz_id |-> quiz_id, student_id |-> user,
                    classroom_id |-> module.classroom_id, status |-> "IN_PROGRESS",
                    total_score |-> 0, max_score |-> Cardinality(quiz_questions),
                    passed |-> FALSE, started_at |-> now, completed_at |-> None]
        Reply(session_id, status, detail) ==
            [StartResp(user, quiz_id, session_id, status, detail) EXCEPT !.op = op]
    IN  /\ IF quiz_id \notin DOMAIN quizzes
           THEN Raise(Reply(None, HTTP_404_NOT_FOUND, "Quiz not found"))
           ELSE IF ~quiz.is_active
           THEN Raise(Reply(None, HTTP_400_BAD_REQUEST, "Quiz is not active"))
           ELSE IF /\ Truthy(quiz.prerequisite_quiz_id)
                   /\ CountRows(completed_quizzes, <<user, quiz.prerequisite_quiz_id>>) = 0
           THEN Raise(Reply(None, HTTP_403_FORBIDDEN, "QUIZ_LOCKED"))
           ELSE IF <<module.classroom_id, user>> \notin enrolled
           THEN Raise(Reply(None, HTTP_403_FORBIDDEN, "Not enrolled in this classroom"))
           ELSE IF quiz_questions = {}
           THEN Raise(Reply(None, HTTP_400_BAD_REQUEST, "Quiz has no questions"))
           ELSE /\ quiz_sessions' = Append(quiz_sessions, session)
                /\ resp' = Reply(Len(quiz_sessions) + 1, HTTP_200_OK, "")
                /\ UNCHANGED <<session_answers, leitner_boxes, completed_quizzes,
                               completed_modules, leitner_sessions, leitner_session_answers>>
        /\ UNCHANGED <<staticVars, now>>

\* routes/session.py submit_answer
legacy_submit_answer(session_id, question_id, request, user) ==
    LET op == "legacy_submit_answer"
        session == quiz_sessions[session_id]
        question == questions[question_id]
        is_correct == check_answer(question, request)
        answer == [session_id |-> session_id, question_id |-> question_id,
                   is_correct |-> is_correct,
                   answer_data |-> request]
    IN  /\ IF ~OwnSession(quiz_sessions, session_id, user)
           THEN Raise(SessionResp(op, user, session_id, question_id,
                                  HTTP_404_NOT_FOUND, "SESSION_NOT_FOUND"))
           ELSE IF session.status # "IN_PROGRESS"
           THEN Raise(SessionResp(op, user, session_id, question_id,
                                  HTTP_400_BAD_REQUEST, "SESSION_ALREADY_FINISHED"))
           ELSE IF \E a \in session_answers :
                      a.session_id = session_id /\ a.question_id = question_id
           THEN Raise(SessionResp(op, user, session_id, question_id,
                                  HTTP_400_BAD_REQUEST, "Already answered"))
           ELSE IF question_id \notin DOMAIN questions \/ question.quiz_id # session.quiz_id
           THEN Raise(SessionResp(op, user, session_id, question_id,
                                  HTTP_404_NOT_FOUND, "Question not found"))
           ELSE /\ session_answers' = session_answers \cup {answer}
                /\ resp' = LegacyAnswerResult(op, user, session_id, question_id, is_correct)
                /\ UNCHANGED <<quiz_sessions, leitner_boxes, completed_quizzes,
                               completed_modules, leitner_sessions, leitner_session_answers>>
        /\ UNCHANGED <<staticVars, now>>

\* the lookup of the legacy finish finds no completion row
ExistingComplete_Never(student_id, quiz_id) == FALSE

\* existing_complete of the legacy finish_session
ExistingComplete(student_id, quiz_id) ==
    CountRows(completed_quizzes, <<student_id, quiz_id>>) > 0

\* routes/session.py finish_session
legacy_finish_session(session_id, user) ==
    LET op == "legacy_finish_session"
        session == quiz_sessions[session_id]
        correct_count == Cardinality({a \in session_answers :
                                        a.session_id = session_id /\ a.is_correct})
        quiz == quizzes[session.quiz_id]
        passed == IF quiz.min_score_to_unlock_next > 0
                  THEN correct_count >= quiz.min_score_to_unlock_next ELSE TRUE
        finished == [session EXCEPT !.total_score = correct_count,
                                    !.passed = passed,
                                    !.status = "COMPLETED",
                                    !.completed_at = now]
        first_pass == ~ExistingComplete(user, session.quiz_id)
        done == IF first_pass
                THEN Append(completed_quizzes, <<user, session.quiz_id>>)
                ELSE completed_quizzes
        seeded == {NewBoxEntry(session.classroom_id, user, q) :
                     q \in {x \in QuestionsOfQuiz(session.quiz_id) :
                              BoxRows(session.classroom_id, user, x) = {}}}
    IN  /\ IF ~OwnSession(quiz_sessions, session_id, user)
           THEN Raise(SessionResp(op, user, session_id, None,
                                  HTTP_404_NOT_FOUND, "SESSION_NOT_FOUND"))
           ELSE IF session.status # "IN_PROGRESS"
           THEN Raise(SessionResp(op, user, session_id, None,
                                  HTTP_400_BAD_REQUEST, "SESSION_ALREADY_FINISHED"))
           ELSE /\ quiz_sessions' = [quiz_sessions EXCEPT ![session_id] = finished]
                /\ IF passed
                   THEN /\ completed_quizzes' = done
                        /\ leitner_boxes' = IF first_pass THEN leitner_boxes \cup seeded
                                            ELSE leitner_boxes
                        /\ completed_modules' =
                              legacy_check_module_completion(done, quiz.module_id, user)
                   ELSE UNCHANGED <<completed_quizzes, leitner_boxes, completed_modules>>
                /\ resp' = SessionResp(op, user, session_id, None, HTTP_200_OK, "")
                /\ UNCHANGED <<session_answers, leitner_sessions, leitner_session_answers>>
        /\ UNCHANGED <<staticVars, now>>

\* routes/leitner.py start_leitner_session
legacy_start_leitner_session(classroom_id, question_count, user) ==
    LET op == "legacy_start_leitner_session"
        boxes == {b \in leitner_boxes : b.classroom_id = classroom_id /\ b.student_id = user}
        Reply(session_id, selected_questions, status, detail) ==
            [LeitnerStartResp(user, question_count, session_id, selected_questions,
                              status, detail) EXCEPT !.op = op]
    IN  /\ IF question_count \notin VALID_QUESTION_COUNTS
           THEN Raise(Reply(None, {}, HTTP_400_BAD_REQUEST, "INVALID_QUESTION_COUNT"))
           ELSE IF classroom_id # TheClassroom
           THEN Raise(Reply(None, {}, HTTP_404_NOT_FOUND, "Classroom not found"))
           ELSE IF <<classroom_id, user>> \notin enrolled
           THEN Raise(Reply(None, {}, HTTP_403_FORBIDDEN, "Not enrolled"))
           ELSE \E selected_questions \in SelectLeitnerQuestions(GroupByLevel(boxes),
                                                                 question_count) :
                  LET session == [classroom_id |-> classroom_id, student_id |-> user,
                                  question_count |-> Len(selected_questions),
                                  correct_answers |-> 0, wrong_answers |-> 0,
                                  promoted |-> 0, demoted |-> 0,
                                  started_at |-> now, completed_at |-> None]
                  IN  IF selected_questions = <<>>
                      THEN Raise(Reply(None, {}, HTTP_400_BAD_REQUEST, "LEITNER_NO_QUESTIONS"))
                      ELSE /\ leitner_sessions' = Append(leitner_sessions, session)
                           /\ resp' = Reply(Len(leitner_sessions) + 1,
                                            {selected_questions[i].question_id :
                                               i \in DOMAIN selected_questions},
                                            HTTP_200_OK, "")
                           /\ UNCHANGED <<quiz_sessions, session_answers, leitner_boxes,
                                          completed_quizzes, completed_modules,
                                          leitner_session_answers>>
        /\ UNCHANGED <<staticVars, now>>

\* the legacy promotion without the cap at box 5
LegacyNewBox_Uncapped(box_level, is_correct) ==
    IF is_correct THEN box_level + 1 ELSE MinBox

\* new_box = min(lb.box_level + 1, 5) if is_correct else 1
LegacyNewBox(box_level, is_correct) ==
    IF is_correct THEN Min(box_level + 1, MaxBox) ELSE MinBox

\* routes/leitner.py submit_leitner_answer
legacy_submit_leitner_answer(session_id, question_id, request, user) ==
    LET op == "legacy_submit_leitner_answer"
        session == leitner_sessions[session_id]
        question == questions[question_id]
        rows == BoxRows(session.classroom_id, user, question_id)
        lb == CHOOSE b \in rows : TRUE
        is_correct == check_answer(question, request)
        new_box == LegacyNewBox(lb.box_level, is_correct)
        answer == [session_id |-> session_id, question_id |-> question_id,
                   is_correct |-> is_correct, previous_box |-> lb.box_level,
                   new_box |-> new_box,
                   answer_data |-> request]
    IN  /\ IF ~OwnSession(leitner_sessions, session_id, user)
           THEN Raise(SessionResp(op, user, session_id, question_id,
                                  HTTP_404_NOT_FOUND, "Session not found"))
           ELSE IF Truthy(session.completed_at)
           THEN Raise(SessionResp(op, user, session_id, question_id,
                                  HTTP_400_BAD_REQUEST, "Session already finished"))
           ELSE IF \E a \in leitner_session_answers :
                      a.session_id = session_id /\ a.question_id = question_id
           THEN Raise(SessionResp(op, user, session_id, question_id,
                                  HTTP_400_BAD_REQUEST, "Already answered"))
           ELSE IF question_id \notin DOMAIN questions
           THEN Raise(SessionResp(op, user, session_id, question_id,
                                  HTTP_404_NOT_FOUND, "Question not found"))
           ELSE IF rows = {}
           THEN Raise(SessionResp(op, user, session_id, question_id,
                                  HTTP_404_NOT_FOUND, "Question not in Leitner boxes"))
           ELSE /\ leitner_session_answers' = leitner_session_answers \cup {answer}
                /\ leitner_boxes' = (leitner_boxes \ {lb})
                                    \cup {[lb EXCEPT !.box_level = new_box,
                                                     !.last_reviewed_at = now]}
                /\ resp' = LegacyAnswerResult(op, user, session_id, question_id, is_correct)
                /\ UNCHANGED <<quiz_sessions, session_answers, completed_quizzes,
                               completed_modules, leitner_sessions>>
        /\ UNCHANGED <<staticVars, now>>

\* routes/leitner.py finish_leitner_session
legacy_finish_leitner_session(session_id, user) ==
    LET op == "legacy_finish_leitner_session"
        session == leitner_sessions[session_id]
        answers == {a \in leitner_session_answers : a.session_id = session_id}
        correct == Cardinality({a \in answers : a.is_correct})
        finished == [session EXCEPT
                       !.correct_answers = correct,
                       !.wrong_answers = Cardinality(answers) - correct,
                       !.promoted = Cardinality({a \in answers : a.new_box > a.previous_box}),
                       !.demoted = Cardinality({a \in answers : a.new_box < a.previous_box}),
                       !.completed_at = now]
    IN  /\ IF ~OwnSession(leitner_sessions, session_id, user)
           THEN Raise(SessionResp(op, user, session_id, None,
                                  HTTP_404_NOT_FOUND, "Session not found"))
           ELSE IF Truthy(session.completed_at)
           THEN Raise(SessionResp(op, user, session_id, None,
                                  HTTP_400_BAD_REQUEST, "Session already finished"))
           ELSE /\ leitner_sessions' = [leitner_sessions EXCEPT ![session_id] = finished]
                /\ resp' = SessionResp(op, user, session_id, None, HTTP_200_OK, "")
                /\ UNCHANGED <<quiz_sessions, session_answers, leitner_boxes,
                               completed_quizzes, completed_modules,
                               leitner_session_answers>>
        /\ UNCHANGED <<staticVars, now>>

LegacyStartSession ==
    /\ app = "main" /\ MayStart
    /\ \E user \in Users, quiz_id \in DOMAIN quizzes : legacy_start_session(quiz_id, user)

LegacySubmitAnswer ==
    /\ app = "main"
    /\ \E user \in Users, session_id \in DOMAIN quiz_sessions,
          question_id \in DOMAIN questions, selected_option_id \in {1, 2} :
        legacy_submit_answer(session_id, question_id, ChoiceDto(selected_option_id), user)

LegacyFinishSession ==
    /\ app = "main"
    /\ \E user \in Users, session_id \in DOMAIN quiz_sessions :
        legacy_finish_session(session_id, user)

LegacyStartLeitnerSession ==
    /\ app = "main" /\ MayStart
    /\ \E user \in Users, question_count \in {5, 7} :
        legacy_start_leitner_session(TheClassroom, question_count, user)

LegacySubmitLeitnerAnswer ==
    /\ app = "main"
    /\ \E user \in Users, session_id \in DOMAIN leitner_sessions,
          question_id \in DOMAIN questions, selected_option_id \in {1, 2} :
        legacy_submit_leitner_answer(session_id, question_id, ChoiceDto(selected_option_id), user)

LegacyFinishLeitnerSession ==
    /\ app = "main"
    /\ \E user \in Users, session_id \in DOMAIN leitner_sessions :
        legacy_finish_leitner_session(session_id, user)

NextLegacy ==
    \/ LegacyStartSession \/ LegacySubmitAnswer \/ LegacyFinishSession
    \/ LegacyStartLeitnerSession \/ LegacySubmitLeitnerAnswer
    \/ LegacyFinishLeitnerSession

InitEither == InitSessions("app.main") \/ InitSessions("main")

NextEither == Next \/ NextLegacy

\* the session lifecycle under either deployment: the service layer
\* (app/main.py) or the legacy routes (main.py)
SpecEither == InitEither /\ [][NextEither]_vars

\* ------------------------------------------------------------------------
\* Properties of the session lifecycle
\* ------------------------------------------------------------------------
\* the rows of an answer table for the (session, question) pair of request r
PairRows(table, r) ==
    {a \in table : a.session_id = r.session_id /\ a.question_id = r.question_id}

\* a standard session that accepts answers: in progress and not timed out
Open(session) ==
    /\ session.status = "IN_PROGRESS"
    /\ now - session.started_at <= SESSION_TIMEOUT_HOURS

\* the request answered in this step comes from the owner of the session
ByOwner(sessions, r) ==
    r.session_id \in DOMAIN sessions /\ sessions[r.session_id].student_id = r.user

Conflict(r) == r.status = HTTP_409_CONFLICT

SessionAlreadyFinished(r) ==
    r.status = HTTP_400_BAD_REQUEST /\ r.detail = "SESSION_ALREADY_FINISHED"

Accepted(r) == r.status = HTTP_200_OK

\* the verdict a submit response reports
Verdict(r) == r.detail = "Correct!"

FirstSubmitStores ==
    /\ resp'.op = "submit_answer" /\ Accepted(resp') =>
         /\ PairRows(session_answers, resp') = {}
         /\ \E a \in session_answers' :
              /\ PairRows(session_answers', resp') = {a}
              /\ a.is_correct = Verdict(resp')
    /\ resp'.op = "submit_leitner_answer" /\ Accepted(resp') =>
         /\ PairRows(leitner_session_answers, resp') = {}
         /\ \E a \in leitner_session_answers' :
              /\ PairRows(leitner_session_answers', resp') = {a}
              /\ a.is_correct = Verdict(resp')

SecondSubmitConflicts ==
    /\ /\ resp'.op = "submit_answer"
       /\ ByOwner(quiz_sessions, resp')
       /\ PairRows(session_answers, resp') # {}
       => /\ session_answers' = session_answers
          /\ Open(quiz_sessions[resp'.session_id]) => Conflict(resp')
    /\ /\ resp'.op = "submit_leitner_answer"
       /\ ByOwner(leitner_sessions, resp')
       /\ PairRows(leitner_session_answers, resp') # {}
       => /\ leitner_session_answers' = leitner_session_answers
          /\ leitner_sessions[resp'.session_id].completed_at = None => Conflict(resp')

\* C1: of two submit_answer calls for the same (session, question) pair of a
\* standard or Leitner session, the first is accepted and stores one answer
\* row holding its verdict; the second, made while the session still accepts
\* answers, is rejected with Conflict, and whenever a row exists for the pair
\* a further submit leaves the stored rows (isCorrect, previousBox, newBox)
\* as the first call wrote them.
C1_SecondSubmitIsConflictAndKeepsFirstAnswer ==
    [][FirstSubmitStores /\ SecondSubmitConflicts]_vars

\* a second submit was answered with Conflict while the first answer, a
\* correct one, is stored
C1_Witness ==
    /\ resp.op = "submit_answer"
    /\ Conflict(resp)
    /\ \E a \in session_answers : PairRows(session_answers, resp) = {a} /\ a.is_correct

RejectedOnClosedSession ==
    /\ /\ resp'.op \in {"submit_answer", "finish_session"}
       /\ ByOwner(quiz_sessions, resp')
       /\ quiz_sessions[resp'.session_id].status \in {"COMPLETED", "ABANDONED"}
       => SessionAlreadyFinished(resp') /\ UNCHANGED dataVars
    /\ /\ resp'.op \in {"submit_leitner_answer", "finish_leitner_session"}
       /\ ByOwner(leitner_sessions, resp')
       /\ leitner_sessions[resp'.session_id].completed_at # None
       => SessionAlreadyFinished(resp') /\ UNCHANGED dataVars

\* C2: a submit_answer or finish call of the owner on a standard session that
\* is COMPLETED or ABANDONED, or on a Leitner session whose completed_at is
\* set, is rejected with SessionAlreadyFinished and changes no table: score,
\* passed flag, status, answers, completion records and box levels stay as
\* they were, so a second finish keeps the score of the first.
C2_ClosedSessionRejectsSubmitAndFinish == [][RejectedOnClosedSession]_vars

\* a second finish of a passed session was rejected
C2_Witness ==
    /\ resp.op = "finish_session"
    /\ SessionAlreadyFinished(resp)
    /\ quiz_sessions[resp.session_id].status = "COMPLETED"
    /\ quiz_sessions[resp.session_id].total_score > 0

\* the only two status changes, and the step that makes each
ForwardOnly(i) ==
    LET old == quiz_sessions[i]
        new == quiz_sessions'[i]
    IN  /\ old.status # new.status =>
              /\ old.status = "IN_PROGRESS"
              /\ resp'.session_id = i
              /\ \/ /\ new.status = "COMPLETED"
                    /\ resp'.op \in {"finish_session", "legacy_finish_session"}
                    /\ Accepted(resp')
                 \/ /\ new.status = "ABANDONED"
                    /\ resp'.op = "submit_answer"
                    /\ ~Accepted(resp')
                    /\ ~Open(old)
        /\ old.status # "IN_PROGRESS" => new = old
        /\ (old.total_score # new.total_score \/ old.passed # new.passed) =>
              old.status = "IN_PROGRESS" /\ new.status = "COMPLETED"

LeitnerSummaryOnce(i) ==
    LET old == leitner_sessions[i]
        new == leitner_sessions'[i]
        Summary(s) == <<s.correct_answers, s.wrong_answers, s.promoted, s.demoted>>
    IN  /\ old.completed_at # None => new = old
        /\ Summary(old) # Summary(new) =>
              /\ old.completed_at = None /\ new.completed_at # None
              /\ resp'.op \in {"finish_leitner_session", "legacy_finish_leitner_session"}
              /\ resp'.session_id = i

StatusStep ==
    /\ \A i \in DOMAIN quiz_sessions : i \in DOMAIN quiz_sessions' /\ ForwardOnly(i)
    /\ \A i \in DOMAIN quiz_sessions' \ DOMAIN quiz_sessions :
         /\ quiz_sessions'[i].status = "IN_PROGRESS"
         /\ quiz_sessions'[i].total_score = 0 /\ ~quiz_sessions'[i].passed
    /\ \A i \in DOMAIN leitner_sessions : i \in DOMAIN leitner_sessions' /\ LeitnerSummaryOnce(i)

\* C3: the status of a session changes only from IN_PROGRESS to COMPLETED in
\* an accepted finish, or from IN_PROGRESS to ABANDONED in a submit that finds
\* the session timed out; a COMPLETED or ABANDONED session never changes
\* again; totalScore and passed (standard) and correct / wrong / promoted /
\* demoted (Leitner) change only in the step that completes the session.
C3_StatusMovesForwardAndScoreIsWrittenOnce == [][StatusStep]_vars

\* one session was completed with a score, another was abandoned
C3_Witness ==
    \E i, j \in DOMAIN quiz_sessions :
        /\ quiz_sessions[i].status = "COMPLETED" /\ quiz_sessions[i].total_score > 0
        /\ quiz_sessions[j].status = "ABANDONED"

\* the level the Leitner rule gives a question answered at box b
LeitnerRule(b, is_correct) ==
    IF is_correct THEN (IF b + 1 <= MaxBox THEN b + 1 ELSE MaxBox) ELSE MinBox

BoxMoves ==
    /\ resp'.op = "submit_leitner_answer" /\ Accepted(resp') =>
         \A a \in leitner_session_answers' \ leitner_session_answers :
             \E b \in BoxRows(leitner_sessions[a.session_id].classroom_id,
                              resp'.user, a.question_id) :
                 a.previous_box = b.box_level
    /\ resp'.op = "finish_leitner_session" /\ Accepted(resp') =>
         \A a \in leitner_session_answers :
             a.session_id = resp'.session_id =>
                 LET entries == {b \in leitner_boxes' :
                                   /\ b.classroom_id =
                                        leitner_sessions[a.session_id].classroom_id
                                   /\ b.student_id = resp'.user
                                   /\ b.question_id = a.question_id}
                 IN  /\ entries # {}
                     /\ \A b \in entries :
                            b.box_level = LeitnerRule(a.previous_box, a.is_correct)

\* C4: an answer of a Leitner session records as previousBox the level b the
\* question is at when it is answered, and when the session is finished the
\* Box Entry of every answered question is at min(b + 1, 5) if the answer was
\* correct and at 1 if it was not.
C4_FinishAppliesLeitnerRule == [][BoxMoves]_vars

\* a finish left at box 5 a question answered correctly at box 5
C4_Witness ==
    /\ resp.op = "finish_leitner_session"
    /\ Accepted(resp)
    /\ \E a \in leitner_session_answers :
          /\ a.session_id = resp.session_id
          /\ a.is_correct /\ a.previous_box = MaxBox
          /\ \E b \in leitner_boxes : b.question_id = a.question_id /\ b.box_level = MaxBox

NoStartWithoutQuestions ==
    /\ /\ resp'.op = "start_session"
       /\ resp'.quiz_id \in DOMAIN quizzes
       /\ QuestionsOfQuiz(resp'.quiz_id) = {}
       => ~Accepted(resp') /\ quiz_sessions' = quiz_sessions
    /\ /\ resp'.op = "start_leitner_session"
       /\ \A b \in leitner_boxes : b.student_id # resp'.user
       => /\ ~Accepted(resp') /\ leitner_sessions' = leitner_sessions
          /\ resp'.question_count \in VALID_QUESTION_COUNTS =>
                resp'.detail = "LEITNER_NO_QUESTIONS"

\* C9: starting a standard session on a quiz that holds no question, or a
\* Leitner session for a student without any Box Entry, fails and creates no
\* session row (a Leitner start with a valid count fails with
\* LEITNER_NO_QUESTIONS).
C9_StartWithoutQuestionsFails == [][NoStartWithoutQuestions]_vars

\* C5: in every reachable state, under the service layer and under the legacy
\* routes, every Box Entry has a level in 1..5 and every stored Leitner answer
\* has previousBox and newBox in 1..5.
C5_BoxLevelsStayInRange ==
    /\ \A b \in leitner_boxes : b.box_level \in 1..5
    /\ \A a \in leitner_session_answers : a.previous_box \in 1..5 /\ a.new_box \in 1..5

\* a correct answer at box 5 was stored, and its question is at box 5
C5_Witness ==
    \E a \in leitner_session_answers :
        /\ a.is_correct /\ a.previous_box = 5 /\ a.new_box = 5
        /\ \E b \in leitner_boxes : b.question_id = a.question_id /\ b.box_level = 5

\* the student of the finish answered in this step had passed the quiz before
PassedAgain ==
    /\ resp'.op \in {"finish_session", "legacy_finish_session"}
    /\ Accepted(resp')
    /\ quiz_sessions'[resp'.session_id].passed
    /\ CountRows(completed_quizzes,
                 <<resp'.user, quiz_sessions[resp'.session_id].quiz_id>>) > 0

SecondPassKeepsProgress ==
    PassedAgain =>
        LET quiz_id == quiz_sessions[resp'.session_id].quiz_id
        IN  /\ CountRows(completed_quizzes', <<resp'.user, quiz_id>>) = 1
            /\ \A b \in leitner_boxes :
                 b.student_id = resp'.user /\ b.question_id \in QuestionsOfQuiz(quiz_id)
                 => \E c \in leitner_boxes' :
                       /\ c.classroom_id = b.classroom_id /\ c.student_id = b.student_id
                       /\ c.question_id = b.question_id /\ c.box_level = b.box_level

\* C6: when a student passes a quiz already passed before, under the service
\* layer or the legacy routes, the number of completion rows for (student,
\* quiz) stays 1 and every Box Entry of the quiz's questions keeps its level:
\* a question promoted above box 1 is not reset to box 1.
C6_SecondPassKeepsCompletionAndBoxes == [][SecondPassKeepsProgress]_vars

\* two passed sessions of the same quiz are stored, the second just finished,
\* and the quiz's question sits above box 1
C6_Witness ==
    /\ resp.op \in {"finish_session", "legacy_finish_session"}
    /\ Accepted(resp)
    /\ \E i, j \in DOMAIN quiz_sessions :
          /\ i # j /\ j = resp.session_id
          /\ quiz_sessions[i].quiz_id = quiz_sessions[j].quiz_id
          /\ quiz_sessions[i].passed /\ quiz_sessions[j].passed
          /\ \E b \in leitner_boxes :
                /\ b.question_id \in QuestionsOfQuiz(quiz_sessions[j].quiz_id)
                /\ b.box_level > 1


\* ------------------------------------------------------------------------
\* Prerequisite locks at session start
\* ------------------------------------------------------------------------
\* module 2 requires module 1; quiz 1 (module 1) gates the module and quiz 2,
\* quiz 3 sits in module 2; quizzes 1 and 3 hold one QCM question each
LockCatalogue ==
    /\ modules = (1 :> [classroom_id |-> TheClassroom, prerequisite_module_id |-> None]
                  @@ 2 :> [classroom_id |-> TheClassroom, prerequisite_module_id |-> 1])
    /\ quizzes = (1 :> [module_id |-> 1, prerequisite_quiz_id |-> None,
                        min_score_to_unlock_next |-> 1, is_active |-> TRUE]
                  @@ 2 :> [module_id |-> 1, prerequisite_quiz_id |-> 1,
                           min_score_to_unlock_next |-> 0, is_active |-> TRUE]
                  @@ 3 :> [module_id |-> 2, prerequisite_quiz_id |-> None,
                           min_score_to_unlock_next |-> 1, is_active |-> TRUE])
    /\ questions = [q \in {1, 2} |->
                      [quiz_id |-> IF q = 1 THEN 1 ELSE 3, type |-> "QCM",
                       options |-> {[id |-> 1, is_correct |-> TRUE],
                                    [id |-> 2, is_correct |-> FALSE]}]]
    /\ enrolled = {<<TheClassroom, "alice">>}

InitLocks ==
    /\ app = "app.main"
    /\ LockCatalogue
    /\ Fresh
    /\ quiz_sessions = <<>>
    /\ session_answers = {}
    /\ leitner_sessions = <<>>
    /\ leitner_session_answers = {}
    /\ now = 1
    /\ resp = NoResp
    /\ inflight = NoRequests
    /\ boxes_by_level = [l \in Levels |-> <<>>]
    /\ count = 5
    /\ selected = <<>>
    /\ sched_pc = "call"

NextLocks == StartSession \/ SubmitAnswer \/ FinishSession

\* standard sessions of the service layer over a catalogue with prerequisites
SpecLocks == InitLocks /\ [][NextLocks]_vars

\* the spec's lock resolution for a subject with prerequisite `prerequisite`
\* and completion records `done`
Locked(prerequisite, done, student) ==
    prerequisite # None /\ CountRows(done, <<student, prerequisite>>) = 0

LockStep ==
    /\ resp'.op = "start_session"
    /\ resp'.quiz_id \in DOMAIN quizzes
    /\ quizzes[resp'.quiz_id].is_active
    /\ <<modules[quizzes[resp'.quiz_id].module_id].classroom_id, resp'.user>> \in enrolled
    => LET quiz == quizzes[resp'.quiz_id]
           quiz_locked == Locked(quiz.prerequisite_quiz_id, completed_quizzes, resp'.user)
           module_locked == Locked(modules[quiz.module_id].prerequisite_module_id,
                                   completed_modules, resp'.user)
       IN  IF quiz_locked \/ module_locked
           THEN /\ resp'.status = HTTP_403_FORBIDDEN
                /\ resp'.detail = IF quiz_locked THEN "QUIZ_LOCKED" ELSE "MODULE_LOCKED"
                /\ quiz_sessions' = quiz_sessions
           ELSE /\ Accepted(resp')
                /\ Len(quiz_sessions') = Len(quiz_sessions) + 1
                /\ quiz_sessions'[resp'.session_id].quiz_id = resp'.quiz_id
                /\ quiz_sessions'[resp'.session_id].student_id = resp'.user

\* C11: start_session of an enrolled student on an active quiz creates a
\* session exactly when, in the completion records as they are at the call,
\* the quiz's prerequisite quiz (if any) and the module's prerequisite module
\* (if any) are completed by the student; otherwise it answers QUIZ_LOCKED or
\* MODULE_LOCKED and creates no session.
C11_StartIsLockedByCurrentCompletionRecords == [][LockStep]_vars

\* a session on the quiz of module 2 was started after module 1 was
\* completed by a passed session on quiz 1
C11_Witness ==
    /\ resp.op = "start_session" /\ Accepted(resp)
    /\ quizzes[resp.quiz_id].module_id = 2
    /\ \E i \in DOMAIN quiz_sessions : quiz_sessions[i].quiz_id = 1 /\ quiz_sessions[i].passed
    /\ CountRows(completed_modules, <<resp.user, 1>>) = 1


\* ------------------------------------------------------------------------
\* Session review
\* ------------------------------------------------------------------------
\* response of a review request; answers holds the answer rows returned
ReviewResp(op, user, session_id, status, detail, answers) ==
    [op |-> op, user |-> user, session_id |-> session_id,
     status |-> status, detail |-> detail, answers |-> answers]

\* a review changes no table
Reviewing(r) == resp' = r /\ UNCHANGED <<staticVars, dataVars, now>>

\* session_service.get_session_review and the route GET /sessions/{id}/review
get_session_review(session_id, user) ==
    LET op == "get_session_review"
        session == quiz_sessions[session_id]
        answers == {a \in session_answers : a.session_id = session_id}
    IN  IF session_id \notin DOMAIN quiz_sessions
        THEN Reviewing(ReviewResp(op, user, session_id, HTTP_404_NOT_FOUND,
                                  "SESSION_NOT_FOUND", {}))
        ELSE IF session.student_id # user
        THEN Reviewing(ReviewResp(op, user, session_id, HTTP_403_FORBIDDEN,
                                  "INSUFFICIENT_PERMISSIONS", {}))
        ELSE IF session.status # "COMPLETED"
        THEN Reviewing(ReviewResp(op, user, session_id, HTTP_403_FORBIDDEN,
                                  "Session not completed yet", {}))
        ELSE Reviewing(ReviewResp(op, user, session_id, HTTP_200_OK, "", answers))

\* leitner_service.get_leitner_review and the route
\* GET /leitner/sessions/{sid}/review
get_leitner_review(session_id, user) ==
    LET op == "get_leitner_review"
        session == leitner_sessions[session_id]
        answers == {a \in leitner_session_answers : a.session_id = session_id}
    IN  IF session_id \notin DOMAIN leitner_sessions
        THEN Reviewing(ReviewResp(op, user, session_id, HTTP_404_NOT_FOUND,
                                  "SESSION_NOT_FOUND", {}))
        ELSE IF session.student_id # user
        THEN Reviewing(ReviewResp(op, user, session_id, HTTP_403_FORBIDDEN,
                                  "INSUFFICIENT_PERMISSIONS", {}))
        ELSE IF ~Truthy(session.completed_at)
        THEN Reviewing(ReviewResp(op, user, session_id, HTTP_403_FORBIDDEN,
                                  "Session not completed yet", {}))
        ELSE Reviewing(ReviewResp(op, user, session_id, HTTP_200_OK, "", answers))

\* routes/session.py review_session
review_session(session_id, user) ==
    LET op == "review_session"
        session == quiz_sessions[session_id]
        answers == {a \in session_answers : a.session_id = session_id}
    IN  IF ~OwnSession(quiz_sessions, session_id, user)
        THEN Reviewing(ReviewResp(op, user, session_id, HTTP_404_NOT_FOUND,
                                  "SESSION_NOT_FOUND", {}))
        ELSE IF session.status # "COMPLETED"
        THEN Reviewing(ReviewResp(op, user, session_id, HTTP_400_BAD_REQUEST,
                                  "Session not finished yet", {}))
        ELSE Reviewing(ReviewResp(op, user, session_id, HTTP_200_OK, "", answers))

\* routes/leitner.py review_leitner_session
review_leitner_session(session_id, user) ==
    LET op == "review_leitner_session"
        session == leitner_sessions[session_id]
        answers == {a \in leitner_session_answers : a.session_id = session_id}
    IN  IF ~OwnSession(leitner_sessions, session_id, user)
        THEN Reviewing(ReviewResp(op, user, session_id, HTTP_404_NOT_FOUND,
                                  "Session not found", {}))
        ELSE IF ~Truthy(session.completed_at)
        THEN Reviewing(ReviewResp(op, user, session_id, HTTP_400_BAD_REQUEST,
                                  "Session not finished yet", {}))
        ELSE Reviewing(ReviewResp(op, user, session_id, HTTP_200_OK, "", answers))

\* alice owns every session; bob is another student
Callers == Users \cup {"bob"}

GetSessionReview ==
    /\ app = "app.main"
    /\ \E user \in Callers, session_id \in DOMAIN quiz_sessions :
        get_session_review(session_id, user)

GetLeitnerReview ==
    /\ app = "app.main"
    /\ \E user \in Callers, session_id \in DOMAIN leitner_sessions :
        get_leitner_review(session_id, user)

ReviewSession ==
    /\ app = "main"
    /\ \E user \in Callers, session_id \in DOMAIN quiz_sessions :
        review_session(session_id, user)

ReviewLeitnerSession ==
    /\ app = "main"
    /\ \E user \in Callers, session_id \in DOMAIN leitner_sessions :
        review_leitner_session(session_id, user)

NextReview ==
    \/ NextEither
    \/ GetSessionReview \/ GetLeitnerReview
    \/ ReviewSession \/ ReviewLeitnerSession

\* the session lifecycle with review requests, under either deployment
SpecReview == InitEither /\ [][NextReview]_vars

Forbidden(r) == r.status = HTTP_403_FORBIDDEN

\* owner and completion of the session a review request names
ReviewedSession(r) ==
    IF r.op \in {"get_session_review", "review_session"}
    THEN [owner |-> quiz_sessions[r.session_id].student_id,
          completed |-> quiz_sessions[r.session_id].status = "COMPLETED",
          answers |-> {a \in session_answers : a.session_id = r.session_id}]
    ELSE [owner |-> leitner_sessions[r.session_id].student_id,
          completed |-> leitner_sessions[r.session_id].completed_at # None,
          answers |-> {a \in leitner_session_answers : a.session_id = r.session_id}]

ReviewStep(ops) ==
    resp'.op \in ops =>
        LET s == ReviewedSession(resp')
        IN  /\ Accepted(resp') <=> (resp'.user = s.owner /\ s.completed)
            /\ Accepted(resp') => resp'.answers = s.answers
            /\ ~Accepted(resp') => resp'.answers = {}
            /\ resp'.user # s.owner => Forbidden(resp')

\* C12: a review request on a standard or Leitner session, under the service
\* layer or the legacy routes, returns the stored answers exactly when the
\* caller owns the session and the session is completed; a caller who is not
\* the owner is answered Forbidden in every state of the session, and the
\* owner is rejected while the session is IN_PROGRESS or ABANDONED.
C12_ReviewOnlyByOwnerOfCompletedSession ==
    [][ReviewStep({"get_session_review", "get_leitner_review",
                   "review_session", "review_leitner_session"})]_vars

\* the review of the service layer alone answers a stranger Forbidden
ServiceReviewForbidsStrangers ==
    [][ReviewStep({"get_session_review", "get_leitner_review"})]_vars


\* ------------------------------------------------------------------------
\* Answer evaluation through the submit routes
\* ------------------------------------------------------------------------
OptionsOf(ids, correct) == {[id |-> i, is_correct |-> i \in correct] : i \in ids}

\* choice questions question_service.create_question accepts: a QCM question
\* with at least one correct option, a VRAI_FAUX question with two options
ChoiceQuestions ==
    {[quiz_id |-> 1, type |-> "QCM", options |-> OptionsOf(1..MaxOptions, correct)] :
        correct \in (SUBSET (1..MaxOptions)) \ {{}}}
    \cup {[quiz_id |-> 1, type |-> "VRAI_FAUX", options |-> OptionsOf({1, 2}, correct)] :
            correct \in SUBSET {1, 2}}

\* TEXT questions: an accepted answer (never empty) and the two flags of
\* its text_config
AcceptedAnswers == {<<"a", "a", "a">>, <<"A", "b">>}

TextQuestions ==
    {[quiz_id |-> 1, type |-> "TEXT",
      text_config |-> [accepted_answer |-> accepted,
                       is_case_sensitive |-> case_sensitive,
                       ignore_spelling_errors |-> ignore]] :
        accepted \in AcceptedAnswers, case_sensitive \in BOOLEAN, ignore \in BOOLEAN}

\* a MATCHING question with two pairs
MatchingQuestions ==
    {[quiz_id |-> 1, type |-> "MATCHING",
      matching_pairs |-> {[id |-> 1, item_left |-> 1, item_right |-> 1],
                          [id |-> 2, item_left |-> 2, item_right |-> 2]}]}

\* IMAGE questions: one zone of radius 1 around (1, 1), or no zone at all
\* (update_question replaces the zones by any list, also the empty one)
ImageQuestions ==
    {[quiz_id |-> 1, type |-> "IMAGE", image_zones |-> zones] :
        zones \in {{}, {[id |-> 1, x |-> 1, y |-> 1, radius |-> 1]}}}

QuestionBank == ChoiceQuestions \cup TextQuestions \cup MatchingQuestions \cup ImageQuestions

\* submissions: no option, or one of the option ids
ChoiceSubmissions == {ChoiceDto(id) : id \in {None} \cup 1..MaxOptions}

RECURSIVE TextsOfLength(_)
TextsOfLength(n) ==
    IF n = 0 THEN {<<>>}
    ELSE {Append(t, c) : t \in TextsOfLength(n - 1), c \in Characters}

Texts == UNION {TextsOfLength(n) : n \in 0..MaxTextLen}

\* submissions that only carry a text
TextSubmissions ==
    {[ChoiceDto(None) EXCEPT !.text_response = [null |-> FALSE, chars |-> t]] : t \in Texts}

\* submissions that only carry pairs: the empty list, the right pairs, one
\* right pair, crossed pairs
PairSubmissions ==
    {[ChoiceDto(None) EXCEPT !.matched_pairs = [null |-> FALSE, pairs |-> p]] :
        p \in {{}, {<<1, 1>>, <<2, 2>>}, {<<1, 1>>}, {<<1, 2>>, <<2, 1>>}}}

\* submissions that only carry a click: inside the zone, on its border, outside
ClickSubmissions ==
    {[ChoiceDto(None) EXCEPT !.clicked_coordinates = [null |-> FALSE, x |-> c[1], y |-> c[2]]] :
        c \in {<<1, 1>>, <<1, 2>>, <<3, 3>>}}

\* the submissions sent to a question: those carrying the field its type
\* reads, and the submission without any field
SubmissionsFor(question) ==
    {ChoiceDto(None)}
    \cup (IF question.type = "TEXT" THEN TextSubmissions
          ELSE IF question.type = "MATCHING" THEN PairSubmissions
          ELSE IF question.type = "IMAGE" THEN ClickSubmissions
          ELSE ChoiceSubmissions)

StandardSessionOpen ==
    /\ quiz_sessions = <<[quiz_id |-> 1, student_id |-> "alice",
                          classroom_id |-> TheClassroom, status |-> "IN_PROGRESS",
                          total_score |-> 0, max_score |-> 1, passed |-> FALSE,
                          started_at |-> 1, completed_at |-> None]>>
    /\ leitner_sessions = <<>>

LeitnerSessionOpen ==
    /\ quiz_sessions = <<>>
    /\ leitner_sessions = <<[classroom_id |-> TheClassroom, student_id |-> "alice",
                             question_count |-> 1, correct_answers |-> 0,
                             wrong_answers |-> 0, promoted |-> 0, demoted |-> 0,
                             started_at |-> 1, completed_at |-> None]>>

\* alice passed quiz 1 (no minimum score) earlier, which put its question in
\* box 1; she now has a standard or a Leitner session open on it
InitEvaluate ==
    /\ app \in {"app.main", "main"}
    /\ modules = (1 :> [classroom_id |-> TheClassroom, prerequisite_module_id |-> None])
    /\ quizzes = (1 :> [module_id |-> 1, prerequisite_quiz_id |-> None,
                        min_score_to_unlock_next |-> 0, is_active |-> TRUE])
    /\ \E question \in QuestionBank : questions = (1 :> question)
    /\ enrolled = {<<TheClassroom, "alice">>}
    /\ leitner_boxes = {NewBoxEntry(TheClassroom, "alice", 1)}
    /\ completed_quizzes = << <<"alice", 1>> >>
    /\ completed_modules = IF app = "app.main" THEN << <<"alice", 1>> >> ELSE <<>>
    /\ StandardSessionOpen \/ LeitnerSessionOpen
    /\ session_answers = {}
    /\ leitner_session_answers = {}
    /\ now = 1
    /\ resp = NoResp
    /\ inflight = NoRequests
    /\ boxes_by_level = [l \in Levels |-> <<>>]
    /\ count = 5
    /\ selected = <<>>
    /\ sched_pc = "call"

SubmitAnswerDto ==
    /\ app = "app.main"
    /\ \E user \in Users, session_id \in DOMAIN quiz_sessions,
          question_id \in DOMAIN questions :
        \E data \in SubmissionsFor(questions[question_id]) :
        submit_answer(session_id, question_id, StandardAnswerData(data), user)

SubmitLeitnerAnswerDto ==
    /\ app = "app.main"
    /\ \E user \in Users, session_id \in DOMAIN leitner_sessions,
          question_id \in DOMAIN questions :
        \E data \in SubmissionsFor(questions[question_id]) :
        submit_leitner_answer(session_id, question_id, LeitnerAnswerData(data), user)

LegacySubmitAnswerRequest ==
    /\ app = "main"
    /\ \E user \in Users, session_id \in DOMAIN quiz_sessions,
          question_id \in DOMAIN questions :
        \E request \in SubmissionsFor(questions[question_id]) :
        legacy_submit_answer(session_id, question_id, request, user)

LegacySubmitLeitnerAnswerRequest ==
    /\ app = "main"
    /\ \E user \in Users, session_id \in DOMAIN leitner_sessions,
          question_id \in DOMAIN questions :
        \E request \in SubmissionsFor(questions[question_id]) :
        legacy_submit_leitner_answer(session_id, question_id, request, user)

NextEvaluate ==
    \/ SubmitAnswerDto \/ SubmitLeitnerAnswerDto
    \/ LegacySubmitAnswerRequest \/ LegacySubmitLeitnerAnswerRequest

\* every kind of submission sent to every kind of question, through the
\* submit routes of either deployment
SpecEvaluate == InitEvaluate /\ [][NextEvaluate]_vars

\* the options a stored submission selected: the service layer stores the
\* answer_data dict, the legacy routes store the request
SelectedOptions(answer_data) ==
    IF "keys" \in DOMAIN answer_data
    THEN answer_data.selected_option_ids
    ELSE IF answer_data.selected_option_id # None
         THEN {answer_data.selected_option_id} ELSE {}

IsChoice(question) == question.type \in {"QCM", "VRAI_FAUX"}

\* an empty selection on a question without correct option is left out: it
\* is the missing-field case, which is evaluated incorrect
ExactSetIsCorrect(rows, types, apps) ==
    \A a \in rows :
        /\ app \in apps /\ questions[a.question_id].type \in types
        /\ SelectedOptions(a.answer_data) \cup CorrectIds(questions[a.question_id]) # {}
        => (a.is_correct <=>
              SelectedOptions(a.answer_data) = CorrectIds(questions[a.question_id]))

\* C13: every stored answer to a single-choice, multi-choice or true/false
\* question, submitted through the submit-answer operation of either
\* deployment, is marked correct exactly when the selected option ids are the
\* set of ids flagged isCorrect (a subset, superset or disjoint set is
\* incorrect).
C13_ChoiceIsCorrectIffExactSet ==
    /\ ExactSetIsCorrect(session_answers, {"QCM", "VRAI_FAUX"}, {"app.main", "main"})
    /\ ExactSetIsCorrect(leitner_session_answers, {"QCM", "VRAI_FAUX"}, {"app.main", "main"})

\* the QCM branch of the service evaluator alone compares the two sets
ServiceQcmIsExact ==
    /\ ExactSetIsCorrect(session_answers, {"QCM"}, {"app.main"})
    /\ ExactSetIsCorrect(leitner_session_answers, {"QCM"}, {"app.main"})

\* true/false under the service layer, and choice questions under the legacy
\* routes, taken separately
ServiceTrueFalseIsExact ==
    ExactSetIsCorrect(session_answers, {"VRAI_FAUX"}, {"app.main"})

LegacyChoiceIsExact ==
    ExactSetIsCorrect(session_answers, {"QCM", "VRAI_FAUX"}, {"main"})


\* the text a stored submission carries: the service layer stores the
\* answer_data dict, the legacy routes store the request
SubmittedText(answer_data) ==
    IF "keys" \in DOMAIN answer_data
    THEN GetText(answer_data, NoText)
    ELSE answer_data.text_response

\* Levenshtein distance of s and t by its defining recurrence on prefixes
EditDistance(s, t) ==
    LET d[i \in 0..Len(s), j \in 0..Len(t)] ==
            IF i = 0 THEN j
            ELSE IF j = 0 THEN i
            ELSE Min(Min(d[i - 1, j] + 1, d[i, j - 1] + 1),
                     d[i - 1, j - 1] + (IF s[i] = t[j] THEN 0 ELSE 1))
    IN  d[Len(s), Len(t)]

\* the verdict the spec gives to text `response` for text_config `config`
TextVerdict(config, response) ==
    LET accepted == IF config.is_case_sensitive THEN config.accepted_answer
                    ELSE Lower(config.accepted_answer)
        given == IF config.is_case_sensitive THEN response ELSE Lower(response)
    IN  IF config.ignore_spelling_errors
        THEN EditDistance(given, accepted) <= 2
        ELSE given = accepted

\* rows of TEXT questions that carry a non-empty text are judged as the spec
\* says (a missing or empty text is the missing-field case)
TextJudged(rows, apps) ==
    \A a \in rows :
        /\ app \in apps /\ questions[a.question_id].type = "TEXT"
        /\ TruthyText(SubmittedText(a.answer_data))
        => (a.is_correct <=>
              TextVerdict(questions[a.question_id].text_config,
                          SubmittedText(a.answer_data).chars))

\* C14: every stored answer to a TEXT question, under either deployment, is
\* marked correct exactly when, after lower-casing both strings if the
\* question is not case sensitive, the submitted text is within Levenshtein
\* distance 2 of the accepted answer (ignoreSpellingErrors = true), or equal
\* to it (ignoreSpellingErrors = false).
C14_TextIsCorrectWithinTwoEdits ==
    /\ TextJudged(session_answers, {"app.main", "main"})
    /\ TextJudged(leitner_session_answers, {"app.main", "main"})

\* the legacy routes alone judge texts as the spec says
LegacyTextWithinTwoEdits ==
    /\ TextJudged(session_answers, {"main"})
    /\ TextJudged(leitner_session_answers, {"main"})

\* a text at distance 2 was accepted and stored by the legacy routes
LegacyText_Witness ==
    \E a \in session_answers :
        /\ app = "main" /\ questions[a.question_id].type = "TEXT" /\ a.is_correct
        /\ TruthyText(SubmittedText(a.answer_data))
        /\ EditDistance(SubmittedText(a.answer_data).chars,
                        questions[a.question_id].text_config.accepted_answer) = 2


\* the pairs and the click a stored submission carries
SubmittedPairs(answer_data) ==
    IF "keys" \in DOMAIN answer_data
    THEN (IF "pairs" \in answer_data.keys THEN answer_data.pairs ELSE NoPairs)
    ELSE answer_data.matched_pairs

SubmittedClick(answer_data) ==
    IF "keys" \in DOMAIN answer_data
    THEN (IF "clicked_coordinates" \in answer_data.keys
          THEN answer_data.clicked_coordinates ELSE NoClick)
    ELSE answer_data.clicked_coordinates

\* the submission lacks the field the question's type needs
MissingField(question, answer_data) ==
    IF IsChoice(question) THEN SelectedOptions(answer_data) = {}
    ELSE IF question.type = "TEXT" THEN SubmittedText(answer_data).null
    ELSE IF question.type = "MATCHING" THEN SubmittedPairs(answer_data).null
    ELSE SubmittedClick(answer_data).null

SubmitOps ==
    {"submit_answer", "submit_leitner_answer",
     "legacy_submit_answer", "legacy_submit_leitner_answer"}

MissingFieldStep(ops) ==
    resp'.op \in ops =>
        /\ resp'.status = HTTP_500_INTERNAL_SERVER_ERROR
           => ~MissingField(questions[resp'.question_id], resp'.answer_data)
        /\ \A a \in (session_answers' \ session_answers)
                    \cup (leitner_session_answers' \ leitner_session_answers) :
              MissingField(questions[a.question_id], a.answer_data) => ~a.is_correct

\* C15: a submission that lacks the field its question's type needs (no
\* option, no text, no pairs, no coordinates) is stored as incorrect and the
\* submit never ends in an unhandled error, for every question type, through
\* the standard and the Leitner submit route of either deployment.
C15_MissingFieldIsIncorrectNeverRaises == [][MissingFieldStep(SubmitOps)]_vars

\* the legacy routes alone judge every missing field incorrect
LegacyMissingFieldIsIncorrect ==
    [][MissingFieldStep({"legacy_submit_answer", "legacy_submit_leitner_answer"})]_vars


\* ------------------------------------------------------------------------
\* Two requests of the service layer handled at the same time
\* ------------------------------------------------------------------------
\* Each request runs its handler with a database session of its own
\* (api/deps.py: Depends(get_db)).  A handler gives the event loop to the
\* other request at each await; between two awaits it runs alone.  A select
\* reads the committed rows; the rows a handler adds and the columns it sets
\* are written by its commit.  The tables have the keys the models declare:
\* a generated id for session_answers, leitner_session_answers and
\* leitner_boxes, and (student_id, quiz_id), (student_id, module_id) for the
\* completion tables.
Requests == {1, 2}

\* a request that has not been sent yet
Idle ==
    [op |-> "none", pc |-> "idle", user |-> "alice", session_id |-> None,
     question_id |-> None, answer_data |-> AnswerData(None), is_correct |-> FALSE,
     correct_count |-> 0, answers |-> {}, add_completed |-> FALSE, add_boxes |-> {},
     response |-> NoResp]

\* the request r has reached the line `pc` of its handler
At(r, op, pc) == inflight[r].op = op /\ inflight[r].pc = pc

\* the handler of request r returns or raises: r is answered
Reply(r, response) ==
    /\ inflight' = [inflight EXCEPT ![r].pc = "done", ![r].response = response]
    /\ resp' = response

\* the handler of request r goes on to the line `pc`
Goto(r, pc) ==
    /\ inflight' = [inflight EXCEPT ![r].pc = pc]
    /\ UNCHANGED resp

\* the commit of a transaction that inserts a row whose primary key is taken
\* raises IntegrityError; no handler catches it
StorageError(op, user, session_id) ==
    SessionResp(op, user, session_id, None, HTTP_500_INTERNAL_SERVER_ERROR, "IntegrityError")

\* the client sends request r
Call(r, op, session_id, question_id, answer_data) ==
    /\ inflight[r].pc = "idle"
    /\ inflight' = [inflight EXCEPT ![r].op = op, ![r].pc = "called",
                                    ![r].session_id = session_id,
                                    ![r].question_id = question_id,
                                    ![r].answer_data = answer_data]
    /\ UNCHANGED <<dataVars, resp>>

\* submit_answer up to the timeout check: the session is read and checked
submit_answer_session(r) ==
    LET op == "submit_answer"
        req == inflight[r]
        session == quiz_sessions[req.session_id]
        reject(status, detail) ==
            SessionResp(op, req.user, req.session_id, req.question_id, status, detail)
    IN  /\ At(r, op, "called")
        /\ IF req.session_id \notin DOMAIN quiz_sessions
           THEN Reply(r, reject(HTTP_404_NOT_FOUND, "SESSION_NOT_FOUND")) /\ UNCHANGED dataVars
           ELSE IF session.student_id # req.user
           THEN /\ Reply(r, reject(HTTP_403_FORBIDDEN, "INSUFFICIENT_PERMISSIONS"))
                /\ UNCHANGED dataVars
           ELSE IF StatusClosed(session)
           THEN /\ Reply(r, reject(HTTP_400_BAD_REQUEST, "SESSION_ALREADY_FINISHED"))
                /\ UNCHANGED dataVars
           ELSE IF TimedOut(session)
           THEN /\ quiz_sessions' = [quiz_sessions EXCEPT
                                       ![req.session_id].status = "ABANDONED"]
                /\ Reply(r, reject(HTTP_400_BAD_REQUEST, "SESSION_ALREADY_FINISHED"))
                /\ UNCHANGED <<session_answers, leitner_boxes, completed_quizzes,
                               completed_modules, leitner_sessions, leitner_session_answers>>
           ELSE Goto(r, "session_read") /\ UNCHANGED dataVars

\* submit_answer from the question lookup to evaluate_answer: the duplicate
\* lookup reads the committed rows of session_answers
submit_answer_check(r) ==
    LET op == "submit_answer"
        req == inflight[r]
        session == quiz_sessions[req.session_id]
        question == questions[req.question_id]
        reject(status, detail) ==
            SessionResp(op, req.user, req.session_id, req.question_id, status, detail)
    IN  /\ At(r, op, "session_read")
        /\ UNCHANGED dataVars
        /\ IF req.question_id \notin DOMAIN questions
           THEN Reply(r, reject(HTTP_400_BAD_REQUEST, "QUESTION_NOT_IN_SESSION"))
           ELSE IF question.quiz_id # session.quiz_id
           THEN Reply(r, reject(HTTP_400_BAD_REQUEST, "QUESTION_NOT_IN_SESSION"))
           ELSE IF AlreadyAnswered(req.session_id, req.question_id)
           THEN Reply(r, reject(HTTP_409_CONFLICT, "Question already answered"))
           ELSE IF evaluate_answer_raises(question, req.answer_data)
           THEN Reply(r, ServerError(op, req.user, req.session_id, req.question_id,
                                     req.answer_data))
           ELSE /\ inflight' = [inflight EXCEPT
                                  ![r].pc = "evaluated",
                                  ![r].is_correct = evaluate_answer(question, req.answer_data)]
                /\ UNCHANGED resp

\* submit_answer, db.add(answer) and commit: the row gets an id of its own
submit_answer_commit(r) ==
    LET op == "submit_answer"
        req == inflight[r]
        answer == [id |-> r, session_id |-> req.session_id, question_id |-> req.question_id,
                   is_correct |-> req.is_correct, answer_data |-> req.answer_data]
    IN  /\ At(r, op, "evaluated")
        /\ session_answers' = session_answers \cup {answer}
        /\ Reply(r, [SessionResp(op, req.user, req.session_id, req.question_id,
                                 HTTP_200_OK, "")
                       EXCEPT !.detail = IF req.is_correct THEN "Correct!" ELSE "Incorrect"])
        /\ UNCHANGED <<quiz_sessions, leitner_boxes, completed_quizzes,
                       completed_modules, leitner_sessions, leitner_session_answers>>


\* finish_session up to the status check: the session is read and checked
finish_session_read(r) ==
    LET op == "finish_session"
        req == inflight[r]
        session == quiz_sessions[req.session_id]
        reject(status, detail) == SessionResp(op, req.user, req.session_id, None, status, detail)
    IN  /\ At(r, op, "called")
        /\ UNCHANGED dataVars
        /\ IF req.session_id \notin DOMAIN quiz_sessions
           THEN Reply(r, reject(HTTP_404_NOT_FOUND, "SESSION_NOT_FOUND"))
           ELSE IF session.student_id # req.user
           THEN Reply(r, reject(HTTP_403_FORBIDDEN, "INSUFFICIENT_PERMISSIONS"))
           ELSE IF StatusClosed(session)
           THEN Reply(r, reject(HTTP_400_BAD_REQUEST, "SESSION_ALREADY_FINISHED"))
           ELSE Goto(r, "session_read")

\* finish_session, select(func.count(SessionAnswer.id)) of the correct answers
finish_session_count(r) ==
    LET req == inflight[r]
    IN  /\ At(r, "finish_session", "session_read")
        /\ inflight' = [inflight EXCEPT
                          ![r].pc = "counted",
                          ![r].correct_count =
                              Cardinality({a \in session_answers :
                                             a.session_id = req.session_id /\ a.is_correct})]
        /\ UNCHANGED <<dataVars, resp>>

\* finish_session from session.total_score = correct_count to the first
\* commit: the columns set on the session object are written whatever the
\* row holds by then; a session that is not passed is returned at once
finish_session_commit(r) ==
    LET op == "finish_session"
        req == inflight[r]
        session == quiz_sessions[req.session_id]
        quiz == quizzes[session.quiz_id]
        passed == IsPassed(req.correct_count, quiz)
        finished == [session EXCEPT !.total_score = req.correct_count,
                                    !.status = "COMPLETED",
                                    !.completed_at = now,
                                    !.passed = passed]
    IN  /\ At(r, op, "counted")
        /\ quiz_sessions' = [quiz_sessions EXCEPT ![req.session_id] = finished]
        /\ IF passed
           THEN Goto(r, "complete_quiz")
           ELSE Reply(r, SessionResp(op, req.user, req.session_id, None, HTTP_200_OK, ""))
        /\ UNCHANGED <<session_answers, leitner_boxes, completed_quizzes,
                       completed_modules, leitner_sessions, leitner_session_answers>>

\* _complete_quiz, the lookup of the CompletedQuiz row
complete_quiz_lookup(r) ==
    LET req == inflight[r]
        session == quiz_sessions[req.session_id]
    IN  /\ At(r, "finish_session", "complete_quiz")
        /\ inflight' = [inflight EXCEPT
                          ![r].pc = "completion_read",
                          ![r].add_completed =
                              ~HasCompletedQuiz(completed_quizzes, req.user, session.quiz_id)]
        /\ UNCHANGED <<dataVars, resp>>

\* _complete_quiz, the loop over the questions of the quiz: a Box Entry is
\* added for each question whose lookup finds no row
complete_quiz_boxes(r) ==
    LET req == inflight[r]
        session == quiz_sessions[req.session_id]
    IN  /\ At(r, "finish_session", "completion_read")
        /\ inflight' = [inflight EXCEPT
                          ![r].pc = "boxes_read",
                          ![r].add_boxes =
                              {q \in QuestionsOfQuiz(session.quiz_id) :
                                 BoxRows(session.classroom_id, req.user, q) = {}}]
        /\ UNCHANGED <<dataVars, resp>>

\* a row of leitner_boxes with its generated id
StoredBoxEntry(id, classroom_id, student_id, question_id, box_level, last_reviewed_at) ==
    [id |-> id, classroom_id |-> classroom_id, student_id |-> student_id,
     question_id |-> question_id, box_level |-> box_level,
     last_reviewed_at |-> last_reviewed_at]

\* the insert of the CompletedQuiz row always finds its key free
KeyTaken_Never(done, student_id, quiz_id) == FALSE

\* the primary key (student_id, quiz_id) of completed_quizzes is already taken
KeyTaken(done, student_id, quiz_id) == CountRows(done, <<student_id, quiz_id>>) > 0

\* _complete_quiz from the lookup of the quiz to its commit, with
\* _check_module_completion: the rows added are written together; when the
\* CompletedQuiz row to insert meets a committed row with its key the
\* transaction fails and none of its rows is written
complete_quiz_commit(r) ==
    LET op == "finish_session"
        req == inflight[r]
        session == quiz_sessions[req.session_id]
        quiz_id == session.quiz_id
        done == IF req.add_completed
                THEN Append(completed_quizzes, <<req.user, quiz_id>>)
                ELSE completed_quizzes
        seeded == {StoredBoxEntry(<<r, q>>, session.classroom_id, req.user, q, MinBox, None) :
                     q \in req.add_boxes}
    IN  /\ At(r, op, "boxes_read")
        /\ IF req.add_completed /\ KeyTaken(completed_quizzes, req.user, quiz_id)
           THEN /\ Reply(r, StorageError(op, req.user, req.session_id))
                /\ UNCHANGED dataVars
           ELSE /\ completed_quizzes' = done
                /\ leitner_boxes' = leitner_boxes \cup seeded
                /\ completed_modules' =
                       check_module_completion(done, quizzes[quiz_id].module_id, req.user)
                /\ Reply(r, SessionResp(op, req.user, req.session_id, None, HTTP_200_OK, ""))
                /\ UNCHANGED <<quiz_sessions, session_answers, leitner_sessions,
                               leitner_session_answers>>


\* submit_leitner_answer up to the completed_at check
submit_leitner_answer_session(r) ==
    LET op == "submit_leitner_answer"
        req == inflight[r]
        session == leitner_sessions[req.session_id]
        reject(status, detail) ==
            SessionResp(op, req.user, req.session_id, req.question_id, status, detail)
    IN  /\ At(r, op, "called")
        /\ UNCHANGED dataVars
        /\ IF req.session_id \notin DOMAIN leitner_sessions
           THEN Reply(r, reject(HTTP_404_NOT_FOUND, "SESSION_NOT_FOUND"))
           ELSE IF session.student_id # req.user
           THEN Reply(r, reject(HTTP_403_FORBIDDEN, "INSUFFICIENT_PERMISSIONS"))
           ELSE IF Finished(session)
           THEN Reply(r, reject(HTTP_400_BAD_REQUEST, "SESSION_ALREADY_FINISHED"))
           ELSE Goto(r, "session_read")

\* submit_leitner_answer, the duplicate lookup on the committed rows
submit_leitner_answer_check(r) ==
    LET op == "submit_leitner_answer"
        req == inflight[r]
    IN  /\ At(r, op, "session_read")
        /\ UNCHANGED dataVars
        /\ IF AlreadyAnsweredLeitner(req.session_id, req.question_id)
           THEN Reply(r, SessionResp(op, req.user, req.session_id, req.question_id,
                                     HTTP_409_CONFLICT, "Question already answered"))
           ELSE Goto(r, "checked")

\* submit_leitner_answer from the question lookup to the commit: the Box
\* Entry is read, the answer evaluated and the row stored with an id of its own
submit_leitner_answer_commit(r) ==
    LET op == "submit_leitner_answer"
        req == inflight[r]
        session == leitner_sessions[req.session_id]
        question == questions[req.question_id]
        rows == BoxRows(session.classroom_id, req.user, req.question_id)
        leitner_box == CHOOSE b \in rows : TRUE
        is_correct == evaluate_answer(question, req.answer_data)
        previous_box == leitner_box.box_level
        answer == [id |-> r, session_id |-> req.session_id, question_id |-> req.question_id,
                   is_correct |-> is_correct, previous_box |-> previous_box,
                   new_box |-> NewBox(previous_box, is_correct),
                   answer_data |-> req.answer_data]
        reject(status, detail) ==
            SessionResp(op, req.user, req.session_id, req.question_id, status, detail)
    IN  /\ At(r, op, "checked")
        /\ IF req.question_id \notin DOMAIN questions
           THEN Reply(r, reject(HTTP_404_NOT_FOUND, "Question not found"))
                /\ UNCHANGED dataVars
           ELSE IF rows = {}
           THEN Reply(r, reject(HTTP_404_NOT_FOUND, "Question not in Leitner boxes"))
                /\ UNCHANGED dataVars
           ELSE IF Cardinality(rows) > 1 \/ evaluate_answer_raises(question, req.answer_data)
           THEN /\ Reply(r, ServerError(op, req.user, req.session_id, req.question_id,
                                        req.answer_data))
                /\ UNCHANGED dataVars
           ELSE /\ leitner_session_answers' = leitner_session_answers \cup {answer}
                /\ Reply(r, [reject(HTTP_200_OK, "")
                               EXCEPT !.detail = IF is_correct THEN "Correct!" ELSE "Incorrect"])
                /\ UNCHANGED <<quiz_sessions, session_answers, leitner_boxes,
                               completed_quizzes, completed_modules, leitner_sessions>>

\* finish_leitner_session up to the completed_at check
finish_leitner_session_read(r) ==
    LET op == "finish_leitner_session"
        req == inflight[r]
        session == leitner_sessions[req.session_id]
        reject(status, detail) == SessionResp(op, req.user, req.session_id, None, status, detail)
    IN  /\ At(r, op, "called")
        /\ UNCHANGED dataVars
        /\ IF req.session_id \notin DOMAIN leitner_sessions
           THEN Reply(r, reject(HTTP_404_NOT_FOUND, "SESSION_NOT_FOUND"))
           ELSE IF session.student_id # req.user
           THEN Reply(r, reject(HTTP_403_FORBIDDEN, "INSUFFICIENT_PERMISSIONS"))
           ELSE IF Finished(session)
           THEN Reply(r, reject(HTTP_400_BAD_REQUEST, "SESSION_ALREADY_FINISHED"))
           ELSE Goto(r, "session_read")

\* finish_leitner_session, the select of the answers of the session
finish_leitner_session_answers(r) ==
    LET req == inflight[r]
    IN  /\ At(r, "finish_leitner_session", "session_read")
        /\ inflight' = [inflight EXCEPT
                          ![r].pc = "answers_read",
                          ![r].answers = {a \in leitner_session_answers :
                                            a.session_id = req.session_id}]
        /\ UNCHANGED <<dataVars, resp>>

\* finish_leitner_session from the loop over the answers to the commit: the
\* Box Entry of each answer read is set to the answer's new_box and the
\* counts of the session are written
finish_leitner_session_commit(r) ==
    LET op == "finish_leitner_session"
        req == inflight[r]
        session == leitner_sessions[req.session_id]
        Rows(a) == BoxRows(session.classroom_id, req.user, a.question_id)
        applied == {a \in req.answers : Rows(a) # {}}
        reviewed == {a.question_id : a \in applied}
        \* the select has no ORDER BY: any answer of a question may come last
        LastAnswers == {last \in [reviewed -> applied] :
                          \A q \in reviewed : last[q].question_id = q}
        IsReviewed(b) == /\ b.classroom_id = session.classroom_id
                         /\ b.student_id = req.user
                         /\ b.question_id \in reviewed
        finished == [session EXCEPT
                       !.correct_answers = Cardinality({a \in applied : a.is_correct}),
                       !.wrong_answers = Cardinality({a \in applied : ~a.is_correct}),
                       !.promoted = Cardinality({a \in applied :
                                       a.is_correct /\ a.new_box > a.previous_box}),
                       !.demoted = Cardinality({a \in applied :
                                       ~a.is_correct /\ a.new_box < a.previous_box}),
                       !.completed_at = now]
    IN  /\ At(r, op, "answers_read")
        /\ IF \E a \in req.answers : Cardinality(Rows(a)) > 1
           THEN /\ Reply(r, SessionResp(op, req.user, req.session_id, None,
                                        HTTP_500_INTERNAL_SERVER_ERROR, "MultipleResultsFound"))
                /\ UNCHANGED dataVars
           ELSE /\ \E last \in LastAnswers :
                      leitner_boxes' =
                          {IF IsReviewed(b)
                           THEN [b EXCEPT !.box_level = AppliedLevel(b, last[b.question_id]),
                                          !.last_reviewed_at = now]
                           ELSE b : b \in leitner_boxes}
                /\ leitner_sessions' = [leitner_sessions EXCEPT ![req.session_id] = finished]
                /\ Reply(r, SessionResp(op, req.user, req.session_id, None, HTTP_200_OK, ""))
                /\ UNCHANGED <<quiz_sessions, session_answers, completed_quizzes,
                               completed_modules, leitner_session_answers>>


\* what no step of a request writes
fixedVars == <<app, enrolled, questions, quizzes, modules, schedVars, now>>

\* quiz 1 is passed with one correct answer.  Its question 1 was there from
\* the start; question 2 was added to it later (question_service.create_question
\* adds no Box Entry)
TwoQuestions ==
    /\ modules = (1 :> [classroom_id |-> TheClassroom, prerequisite_module_id |-> None])
    /\ quizzes = (1 :> [module_id |-> 1, prerequisite_quiz_id |-> None,
                        min_score_to_unlock_next |-> 1, is_active |-> TRUE])
    /\ questions = [q \in {1, 2} |->
                      [quiz_id |-> 1, type |-> "QCM",
                       options |-> {[id |-> 1, is_correct |-> TRUE],
                                    [id |-> 2, is_correct |-> FALSE]}]]
    /\ enrolled = {<<TheClassroom, "alice">>}

\* the answer option 1 to question 1 stored in standard session s before the
\* two requests
EarlierAnswer(s) ==
    [id |-> 0 - s, session_id |-> s, question_id |-> 1, is_correct |-> TRUE,
     answer_data |-> AnswerData(1)]

\* the answer to question 1 stored in Leitner session 1 before the two requests
EarlierLeitnerAnswer(level, selected_option_id) ==
    LET answer_data == LeitnerAnswerData(ChoiceDto(selected_option_id))
        is_correct == evaluate_answer(questions[1], answer_data)
    IN  [id |-> 0, session_id |-> 1, question_id |-> 1, is_correct |-> is_correct,
         previous_box |-> level, new_box |-> NewBox(level, is_correct),
         answer_data |-> answer_data]

\* alice has two standard sessions open on quiz 1, each with or without a
\* correct answer to question 1.  Either she never passed the quiz, or she
\* passed it before question 2 was added: then question 1 is in a box and she
\* has a Leitner session open too, with or without an answer
InitConcurrent ==
    /\ app = "app.main"
    /\ TwoQuestions
    /\ quiz_sessions = [s \in 1..MaxSessions |->
                          [quiz_id |-> 1, student_id |-> "alice",
                           classroom_id |-> TheClassroom, status |-> "IN_PROGRESS",
                           total_score |-> 0, max_score |-> 2, passed |-> FALSE,
                           started_at |-> 1, completed_at |-> None]]
    /\ session_answers \in SUBSET {EarlierAnswer(s) : s \in 1..MaxSessions}
    /\ \/ /\ leitner_boxes = {}
          /\ completed_quizzes = <<>>
          /\ completed_modules = <<>>
          /\ leitner_sessions = <<>>
          /\ leitner_session_answers = {}
       \/ \E level \in {3, MaxBox} :
            /\ leitner_boxes = {StoredBoxEntry(<<0, 1>>, TheClassroom, "alice", 1, level, 1)}
            /\ completed_quizzes = << <<"alice", 1>> >>
            /\ completed_modules = << <<"alice", 1>> >>
            /\ leitner_sessions = <<[classroom_id |-> TheClassroom, student_id |-> "alice",
                                     question_count |-> 1, correct_answers |-> 0,
                                     wrong_answers |-> 0, promoted |-> 0, demoted |-> 0,
                                     started_at |-> 1, completed_at |-> None]>>
            /\ leitner_session_answers \in
                   {{}} \cup {{EarlierLeitnerAnswer(level, o)} : o \in {1, 2}}
    /\ now = 1
    /\ resp = NoResp
    /\ inflight = [r \in Requests |-> Idle]
    /\ boxes_by_level = [l \in Levels |-> <<>>]
    /\ count = 5
    /\ selected = <<>>
    /\ sched_pc = "call"

\* POST /sessions/{session_id}/submit-answer arrives
CallSubmitAnswer ==
    \E r \in Requests, session_id \in 1..MaxSessions, question_id \in DOMAIN questions,
       selected_option_id \in {1, 2} :
        /\ Call(r, "submit_answer", session_id, question_id, AnswerData(selected_option_id))
        /\ UNCHANGED fixedVars

\* POST /sessions/{session_id}/finish arrives
CallFinishSession ==
    \E r \in Requests, session_id \in 1..MaxSessions :
        /\ Call(r, "finish_session", session_id, None, AnswerData(None))
        /\ UNCHANGED fixedVars

\* POST /leitner/sessions/{session_id}/submit-answer arrives
CallSubmitLeitnerAnswer ==
    \E r \in Requests, session_id \in DOMAIN leitner_sessions,
       question_id \in DOMAIN questions, selected_option_id \in {1, 2} :
        /\ Call(r, "submit_leitner_answer", session_id, question_id,
                LeitnerAnswerData(ChoiceDto(selected_option_id)))
        /\ UNCHANGED fixedVars

\* POST /leitner/sessions/{session_id}/finish arrives
CallFinishLeitnerSession ==
    \E r \in Requests, session_id \in DOMAIN leitner_sessions :
        /\ Call(r, "finish_leitner_session", session_id, None, AnswerData(None))
        /\ UNCHANGED fixedVars

SubmitAnswerSession == \E r \in Requests : submit_answer_session(r) /\ UNCHANGED fixedVars
SubmitAnswerCheck == \E r \in Requests : submit_answer_check(r) /\ UNCHANGED fixedVars
SubmitAnswerCommit == \E r \in Requests : submit_answer_commit(r) /\ UNCHANGED fixedVars
FinishSessionRead == \E r \in Requests : finish_session_read(r) /\ UNCHANGED fixedVars
FinishSessionCount == \E r \in Requests : finish_session_count(r) /\ UNCHANGED fixedVars
FinishSessionCommit == \E r \in Requests : finish_session_commit(r) /\ UNCHANGED fixedVars
CompleteQuizLookup == \E r \in Requests : complete_quiz_lookup(r) /\ UNCHANGED fixedVars
CompleteQuizBoxes == \E r \in Requests : complete_quiz_boxes(r) /\ UNCHANGED fixedVars
CompleteQuizCommit == \E r \in Requests : complete_quiz_commit(r) /\ UNCHANGED fixedVars
SubmitLeitnerAnswerSession ==
    \E r \in Requests : submit_leitner_answer_session(r) /\ UNCHANGED fixedVars
SubmitLeitnerAnswerCheck ==
    \E r \in Requests : submit_leitner_answer_check(r) /\ UNCHANGED fixedVars
SubmitLeitnerAnswerCommit ==
    \E r \in Requests : submit_leitner_answer_commit(r) /\ UNCHANGED fixedVars
FinishLeitnerSessionRead ==
    \E r \in Requests : finish_leitner_session_read(r) /\ UNCHANGED fixedVars
FinishLeitnerSessionAnswers ==
    \E r \in Requests : finish_leitner_session_answers(r) /\ UNCHANGED fixedVars
FinishLeitnerSessionCommit ==
    \E r \in Requests : finish_leitner_session_commit(r) /\ UNCHANGED fixedVars

NextConcurrent ==
    \/ CallSubmitAnswer
    \/ CallFinishSession
    \/ CallSubmitLeitnerAnswer
    \/ CallFinishLeitnerSession
    \/ SubmitAnswerSession
    \/ SubmitAnswerCheck
    \/ SubmitAnswerCommit
    \/ FinishSessionRead
    \/ FinishSessionCount
    \/ FinishSessionCommit
    \/ CompleteQuizLookup
    \/ CompleteQuizBoxes
    \/ CompleteQuizCommit
    \/ SubmitLeitnerAnswerSession
    \/ SubmitLeitnerAnswerCheck
    \/ SubmitLeitnerAnswerCommit
    \/ FinishLeitnerSessionRead
    \/ FinishLeitnerSessionAnswers
    \/ FinishLeitnerSessionCommit

SpecConcurrent == InitConcurrent /\ [][NextConcurrent]_vars


\* ------------------------------------------------------------------------
\* Properties of two requests handled at the same time
\* ------------------------------------------------------------------------
\* the rows of `table` for the pair (session, question)
AnswerRows(table, session_id, question_id) ==
    {a \in table : a.session_id = session_id /\ a.question_id = question_id}

\* both requests were answered and they were the same call `op` on the same
\* session
BothDone(op) ==
    /\ \A r \in Requests : At(r, op, "done")
    /\ inflight[1].session_id = inflight[2].session_id

\* the HTTP statuses the two requests were answered with
Statuses == {inflight[r].response.status : r \in Requests}

\* the two submits of `op` on one (session, question) pair, of which one was
\* accepted, were answered 200 and 409
OneAcceptedOneConflict(op) ==
    (/\ BothDone(op)
     /\ inflight[1].question_id = inflight[2].question_id
     /\ HTTP_200_OK \in Statuses)
    => /\ Statuses = {HTTP_200_OK, HTTP_409_CONFLICT}
       /\ \E r \in Requests : inflight[r].response.status = HTTP_409_CONFLICT

\* C16: whatever the interleaving of two submit_answer calls (standard or
\* Leitner) for one (session, question) pair, the tables hold at most one
\* answer row for a pair, and when such a pair of calls has been answered
\* exactly one of them was accepted and the other got 409 Conflict
C16_ConcurrentSubmitsStoreOneAnswer ==
    /\ \A s \in 1..MaxSessions, q \in DOMAIN questions :
          /\ Cardinality(AnswerRows(session_answers, s, q)) <= 1
          /\ Cardinality(AnswerRows(leitner_session_answers, s, q)) <= 1
    /\ OneAcceptedOneConflict("submit_answer")
    /\ OneAcceptedOneConflict("submit_leitner_answer")


\* the two finish calls `op` on one session were answered: one 200, the other
\* 400 SESSION_ALREADY_FINISHED
OneFinishedOneRejected(op) ==
    BothDone(op)
    => \E r, o \in Requests :
          /\ r # o
          /\ inflight[r].response.status = HTTP_200_OK
          /\ inflight[o].response.status = HTTP_400_BAD_REQUEST
          /\ inflight[o].response.detail = "SESSION_ALREADY_FINISHED"

\* C17: whatever the interleaving of two finish calls on one IN_PROGRESS
\* session (standard or Leitner), one call makes the transition to COMPLETED
\* and is accepted, the other is rejected as already finished
C17_ConcurrentFinishesTransitionOnce ==
    /\ OneFinishedOneRejected("finish_session")
    /\ OneFinishedOneRejected("finish_leitner_session")

\* the same for each kind of session alone
StandardFinishTransitionsOnce == OneFinishedOneRejected("finish_session")
LeitnerFinishTransitionsOnce == OneFinishedOneRejected("finish_leitner_session")


\* both requests were finish_session calls on two different sessions of the
\* same student and quiz, both passed, and both were answered
TwoPassingFinishesDone ==
    /\ \A r \in Requests : At(r, "finish_session", "done")
    /\ inflight[1].session_id # inflight[2].session_id
    /\ \A r \in Requests :
          /\ inflight[r].session_id \in DOMAIN quiz_sessions
          /\ quiz_sessions[inflight[r].session_id].passed
    /\ quiz_sessions[inflight[1].session_id].quiz_id
         = quiz_sessions[inflight[2].session_id].quiz_id
    /\ quiz_sessions[inflight[1].session_id].student_id
         = quiz_sessions[inflight[2].session_id].student_id

\* C18: whatever the interleaving of the finish calls of two passing
\* sessions of one student on one quiz, afterwards there is exactly one
\* completion row of the quiz and at most one of its module, both sessions
\* are COMPLETED and no call was answered with a storage error
C18_ConcurrentPassesRecordOneCompletion ==
    TwoPassingFinishesDone
    => LET session == quiz_sessions[inflight[1].session_id]
       IN  /\ CountRows(completed_quizzes, <<session.student_id, session.quiz_id>>) = 1
           /\ CountRows(completed_modules,
                        <<session.student_id, quizzes[session.quiz_id].module_id>>) <= 1
           /\ \A r \in Requests :
                 /\ quiz_sessions[inflight[r].session_id].status = "COMPLETED"
                 /\ inflight[r].response.status # HTTP_500_INTERNAL_SERVER_ERROR

\* the key of the completion tables keeps them free of duplicates, and the
\* first commit of finish_session leaves both sessions COMPLETED
CompletionRowsAreUnique ==
    /\ \A q \in DOMAIN quizzes : CountRows(completed_quizzes, <<"alice", q>>) <= 1
    /\ \A m \in DOMAIN modules : CountRows(completed_modules, <<"alice", m>>) <= 1
    /\ TwoPassingFinishesDone
       => \A r \in Requests : quiz_sessions[inflight[r].session_id].status = "COMPLETED"


\* C19: in every reachable state, also after two passing finishes of one
\* student on one quiz handled at the same time, leitner_boxes holds at most
\* one row per (student, classroom, question)
C19_OneBoxEntryPerQuestion ==
    \A q \in DOMAIN questions : Cardinality(BoxRows(TheClassroom, "alice", q)) <= 1

\* the lookups of _complete_quiz never mark for seeding a question whose Box
\* Entry was there before the two requests
SeedingSkipsBoxedQuestions ==
    \A r \in Requests :
        At(r, "finish_session", "boxes_read")
        => \A q \in inflight[r].add_boxes :
              \A b \in BoxRows(TheClassroom, "alice", q) : b.id[1] # 0


\* ------------------------------------------------------------------------
\* Expiry of a session
\* ------------------------------------------------------------------------
\* the session was started more than the maximum age ago
OlderThanMaximumAge(session) == now - session.started_at > SESSION_TIMEOUT_HOURS

\* a submit of the owner, answered in this step by one of the handlers `ops`
\* (standard sessions) or `leitner_ops` (Leitner sessions), on a session in
\* progress and older than the maximum age: the session leaves IN_PROGRESS
\* (status ABANDONED; a Leitner session has no status column and is closed by
\* its completed_at), the call is rejected and no answer row is stored
ExpiredSubmitAbandons(ops, leitner_ops) ==
    /\ /\ resp'.op \in ops
       /\ ByOwner(quiz_sessions, resp')
       /\ quiz_sessions[resp'.session_id].status = "IN_PROGRESS"
       /\ OlderThanMaximumAge(quiz_sessions[resp'.session_id])
       => /\ quiz_sessions'[resp'.session_id].status = "ABANDONED"
          /\ ~Accepted(resp')
          /\ session_answers' = session_answers
    /\ /\ resp'.op \in leitner_ops
       /\ ByOwner(leitner_sessions, resp')
       /\ leitner_sessions[resp'.session_id].completed_at = None
       /\ OlderThanMaximumAge(leitner_sessions[resp'.session_id])
       => /\ leitner_sessions'[resp'.session_id].completed_at # None
          /\ ~Accepted(resp')
          /\ leitner_session_answers' = leitner_session_answers

\* C20: the next submit_answer on a session, standard or Leitner, that is
\* IN_PROGRESS and older than the maximum age of 2 hours moves the session to
\* ABANDONED, is rejected and stores no answer row
C20_SubmitOnExpiredSessionAbandonsIt ==
    [][ExpiredSubmitAbandons({"submit_answer", "legacy_submit_answer"},
                             {"submit_leitner_answer", "legacy_submit_leitner_answer"})]_vars

\* the standard submit_answer of the service layer alone abandons an expired
\* session
ServiceStandardSubmitExpires == [][ExpiredSubmitAbandons({"submit_answer"}, {})]_vars

\* the Leitner submit of the service layer alone
ServiceLeitnerSubmitExpires == [][ExpiredSubmitAbandons({}, {"submit_leitner_answer"})]_vars

\* the standard submit of the legacy routes alone
LegacyStandardSubmitExpires == [][ExpiredSubmitAbandons({"legacy_submit_answer"}, {})]_vars

\* a submit on an expired standard session was rejected and abandoned it
ExpiredSubmit_Witness ==
    /\ resp.op = "submit_answer"
    /\ SessionAlreadyFinished(resp)
    /\ ByOwner(quiz_sessions, resp)
    /\ quiz_sessions[resp.session_id].status = "ABANDONED"
    /\ OlderThanMaximumAge(quiz_sessions[resp.session_id])


\* ------------------------------------------------------------------------
\* Changes of the catalogue and of the roster while sessions are running
\* ------------------------------------------------------------------------
\* the responsible professor of the classroom
TheProfessor == "prof"

\* classroom_service.is_classroom_teacher
is_classroom_teacher(classroom_id, user_id) ==
    classroom_id = TheClassroom /\ user_id = TheProfessor

\* the QCM payloads sent to create_question
QuestionPayloads ==
    {[type |-> "QCM", options |-> {}],
     [type |-> "QCM", options |-> {[id |-> 1, is_correct |-> TRUE],
                                   [id |-> 2, is_correct |-> FALSE]}]}

\* question_service.create_question: no Box Entry is written
create_question(quiz_id, question_data, user) ==
    LET op == "create_question"
        question_id == CHOOSE id \in 1..MaxQuestions : id \notin DOMAIN questions
        reject(status, detail) == SessionResp(op, user, None, None, status, detail)
    IN  /\ IF quiz_id \notin DOMAIN quizzes
           THEN resp' = reject(HTTP_404_NOT_FOUND, "Quiz not found") /\ UNCHANGED questions
           ELSE IF \/ quizzes[quiz_id].module_id \notin DOMAIN modules
                   \/ ~is_classroom_teacher(modules[quizzes[quiz_id].module_id].classroom_id,
                                            user)
           THEN /\ resp' = reject(HTTP_403_FORBIDDEN, "INSUFFICIENT_PERMISSIONS")
                /\ UNCHANGED questions
           ELSE IF question_data.options = {}
           THEN /\ resp' = reject(HTTP_400_BAD_REQUEST, "QCM questions require options")
                /\ UNCHANGED questions
           ELSE IF ~\E o \in question_data.options : o.is_correct
           THEN /\ resp' = reject(HTTP_400_BAD_REQUEST,
                                  "QCM questions require at least one correct option")
                /\ UNCHANGED questions
           ELSE /\ questions' = [q \in DOMAIN questions \cup {question_id} |->
                                   IF q = question_id
                                   THEN [quiz_id |-> quiz_id, type |-> question_data.type,
                                         options |-> question_data.options]
                                   ELSE questions[q]]
                /\ resp' = SessionResp(op, user, None, question_id, HTTP_201_CREATED, "")
        /\ UNCHANGED <<app, enrolled, quizzes, modules, schedVars, inflight, dataVars, now>>

\* question_service.delete_question: db.delete(question) removes with the
\* question the rows of its relationships session_answers, leitner_boxes and
\* leitner_session_answers (cascade="all, delete-orphan")
delete_question(question_id, user) ==
    LET op == "delete_question"
        reject(status, detail) == SessionResp(op, user, None, question_id, status, detail)
        Kept(table) == {row \in table : row.question_id # question_id}
    IN  /\ IF question_id \notin DOMAIN questions
           THEN /\ resp' = reject(HTTP_404_NOT_FOUND, "Question not found")
                /\ UNCHANGED <<questions, dataVars>>
           ELSE IF \/ quizzes[questions[question_id].quiz_id].module_id \notin DOMAIN modules
                   \/ ~is_classroom_teacher(
                          modules[quizzes[questions[question_id].quiz_id].module_id].classroom_id,
                          user)
           THEN /\ resp' = reject(HTTP_403_FORBIDDEN, "INSUFFICIENT_PERMISSIONS")
                /\ UNCHANGED <<questions, dataVars>>
           ELSE /\ questions' = [q \in DOMAIN questions \ {question_id} |-> questions[q]]
                /\ session_answers' = Kept(session_answers)
                /\ leitner_boxes' = Kept(leitner_boxes)
                /\ leitner_session_answers' = Kept(leitner_session_answers)
                /\ resp' = reject(HTTP_200_OK, "")
                /\ UNCHANGED <<quiz_sessions, completed_quizzes, completed_modules,
                               leitner_sessions>>
        /\ UNCHANGED <<app, enrolled, quizzes, modules, schedVars, inflight, now>>

\* the rows of a completion table that are not of a quiz or module of the set
RECURSIVE NotOf(_, _, _)
NotOf(table, student_id, ids) ==
    IF table = <<>> THEN <<>>
    ELSE IF Head(table)[1] = student_id /\ Head(table)[2] \in ids
    THEN NotOf(Tail(table), student_id, ids)
    ELSE <<Head(table)>> \o NotOf(Tail(table), student_id, ids)

\* classroom_service.remove_student: the completion rows of the classroom's
\* modules and quizzes, the Box Entries and the enrolment are deleted; the
\* sessions of the student are kept
remove_student(classroom_id, student_id, user) ==
    LET op == "remove_student"
        reject(status, detail) == SessionResp(op, user, None, None, status, detail)
        module_ids == {m \in DOMAIN modules : modules[m].classroom_id = classroom_id}
        quiz_ids == {q \in DOMAIN quizzes : quizzes[q].module_id \in module_ids}
    IN  /\ IF classroom_id # TheClassroom
           THEN /\ resp' = reject(HTTP_404_NOT_FOUND, "Classroom not found")
                /\ UNCHANGED <<enrolled, dataVars>>
           ELSE IF user # TheProfessor
           THEN /\ resp' = reject(HTTP_403_FORBIDDEN, "INSUFFICIENT_PERMISSIONS")
                /\ UNCHANGED <<enrolled, dataVars>>
           ELSE IF <<classroom_id, student_id>> \notin enrolled
           THEN /\ resp' = reject(HTTP_404_NOT_FOUND, "Student not in classroom")
                /\ UNCHANGED <<enrolled, dataVars>>
           ELSE /\ completed_modules' = NotOf(completed_modules, student_id, module_ids)
                /\ completed_quizzes' = NotOf(completed_quizzes, student_id, quiz_ids)
                /\ leitner_boxes' = {b \in leitner_boxes :
                                       ~(b.student_id = student_id
                                         /\ b.classroom_id = classroom_id)}
                /\ enrolled' = enrolled \ {<<classroom_id, student_id>>}
                /\ resp' = reject(HTTP_200_OK, "")
                /\ UNCHANGED <<quiz_sessions, session_answers, leitner_sessions,
                               leitner_session_answers>>
        /\ UNCHANGED <<app, questions, quizzes, modules, schedVars, inflight, now>>


\* POST /quizzes/{quiz_id}/questions, sent by the professor
CreateQuestion ==
    /\ app = "app.main"
    /\ Cardinality(DOMAIN questions) < MaxQuestions
    /\ \E quiz_id \in DOMAIN quizzes, question_data \in QuestionPayloads :
        create_question(quiz_id, question_data, TheProfessor)

\* DELETE /questions/{question_id}, sent by the professor
DeleteQuestion ==
    /\ app = "app.main"
    /\ \E question_id \in DOMAIN questions : delete_question(question_id, TheProfessor)

\* DELETE /classrooms/{classroom_id}/students/{student_id}, sent by the
\* professor
RemoveStudent ==
    /\ app = "app.main"
    /\ \E student_id \in Users : remove_student(TheClassroom, student_id, TheProfessor)

\* quiz 1 holds one QCM question and is passed with one correct answer; alice
\* never opened it, or passed it earlier and has its question in box 3
InitChanges ==
    /\ app = "app.main"
    /\ modules = (1 :> [classroom_id |-> TheClassroom, prerequisite_module_id |-> None])
    /\ quizzes = (1 :> [module_id |-> 1, prerequisite_quiz_id |-> None,
                        min_score_to_unlock_next |-> 1, is_active |-> TRUE])
    /\ questions = [q \in {1} |->
                      [quiz_id |-> 1, type |-> "QCM",
                       options |-> {[id |-> 1, is_correct |-> TRUE],
                                    [id |-> 2, is_correct |-> FALSE]}]]
    /\ enrolled = {<<TheClassroom, "alice">>}
    /\ Fresh \/ Reviewed(3)
    /\ quiz_sessions = <<>>
    /\ session_answers = {}
    /\ leitner_sessions = <<>>
    /\ leitner_session_answers = {}
    /\ now = 1
    /\ resp = NoResp
    /\ inflight = NoRequests
    /\ boxes_by_level = [l \in Levels |-> <<>>]
    /\ count = 5
    /\ selected = <<>>
    /\ sched_pc = "call"

NextChanges ==
    \/ StartSession \/ SubmitAnswer \/ FinishSession
    \/ StartLeitnerSession \/ SubmitLeitnerAnswer \/ FinishLeitnerSession
    \/ CreateQuestion \/ DeleteQuestion \/ RemoveStudent

\* the session lifecycle of the service layer while the professor adds and
\* deletes questions and removes the student
SpecChanges == InitChanges /\ [][NextChanges]_vars


\* ------------------------------------------------------------------------
\* Properties of the question set of a session
\* ------------------------------------------------------------------------
\* a submit of the owner on an open standard session for a question of
\* another quiz is answered 400 QUESTION_NOT_IN_SESSION and stores nothing
ForeignQuestionRejected ==
    /\ resp'.op = "submit_answer"
    /\ ByOwner(quiz_sessions, resp')
    /\ Open(quiz_sessions[resp'.session_id])
    /\ resp'.question_id \in DOMAIN questions
    /\ questions[resp'.question_id].quiz_id # quiz_sessions[resp'.session_id].quiz_id
    => /\ resp'.status = HTTP_400_BAD_REQUEST
       /\ resp'.detail = "QUESTION_NOT_IN_SESSION"
       /\ session_answers' = session_answers

\* the answers stored for Leitner session s
LeitnerAnswersOf(s) == {a \in leitner_session_answers : a.session_id = s}

\* a Leitner session holds no more answers than the questions selected at its
\* start (question_count of the row is the length of the selection)
AnswersWithinSelection ==
    \A s \in DOMAIN leitner_sessions :
        Cardinality({a.question_id : a \in LeitnerAnswersOf(s)})
            <= leitner_sessions[s].question_count

\* C21: submit_answer stores an answer only for a question of the session's
\* question set: on a standard session a question of another quiz is rejected
\* with QUESTION_NOT_IN_SESSION; on a Leitner session a question outside the
\* selection made at start is rejected even when it has a Box Entry, so that
\* the session never holds answers to more questions than were selected
C21_AnswersOnlyForQuestionsOfTheSession ==
    [][ForeignQuestionRejected]_vars /\ []AnswersWithinSelection

\* the standard half of it
StandardSubmitRejectsForeignQuestion == [][ForeignQuestionRejected]_vars

\* a submit for a question of another quiz was rejected
ForeignQuestion_Witness ==
    /\ resp.op = "submit_answer"
    /\ resp.detail = "QUESTION_NOT_IN_SESSION"
    /\ ByOwner(quiz_sessions, resp)
    /\ resp.question_id \in DOMAIN questions
    /\ questions[resp.question_id].quiz_id # quiz_sessions[resp.session_id].quiz_id


\* ------------------------------------------------------------------------
\* Properties of the finish of a standard session
\* ------------------------------------------------------------------------
FinishOps == {"finish_session", "legacy_finish_session"}

\* the number of stored answers of session s that are correct
CorrectAnswers(s) == Cardinality({a \in session_answers : a.session_id = s /\ a.is_correct})

\* an accepted finish writes the number of correct stored answers as
\* total_score and passed as its comparison with the quiz's threshold; below
\* the threshold the completion tables and the boxes are left as they were
FinishScores ==
    resp'.op \in FinishOps /\ Accepted(resp')
    => LET s == resp'.session_id
           quiz == quizzes[quiz_sessions[s].quiz_id]
       IN  /\ quiz_sessions'[s].total_score = CorrectAnswers(s)
           /\ quiz_sessions'[s].passed
                = (CorrectAnswers(s) >= quiz.min_score_to_unlock_next)
           /\ ~quiz_sessions'[s].passed =>
                /\ completed_quizzes' = completed_quizzes
                /\ completed_modules' = completed_modules
                /\ leitner_boxes' = leitner_boxes

\* C22: finish_session sets total_score to the number of stored answers of
\* the session that are correct and passed to total_score >= the quiz's
\* threshold; a finish below the threshold writes no completion record and no
\* Box Entry
C22_FinishScoresAndRecordsOnlyWhenPassed == [][FinishScores]_vars

\* a session with a stored wrong answer was finished below the threshold:
\* not passed, and the student has no completion record and no Box Entry
C22_Witness ==
    /\ resp.op \in FinishOps
    /\ Accepted(resp)
    /\ ~quiz_sessions[resp.session_id].passed
    /\ quiz_sessions[resp.session_id].total_score = 0
    /\ \E a \in session_answers : a.session_id = resp.session_id /\ ~a.is_correct
    /\ completed_quizzes = <<>>
    /\ leitner_boxes = {}


\* ------------------------------------------------------------------------
\* Completion of a module
\* ------------------------------------------------------------------------
\* module 1 holds quiz 1 and quiz 2, each with one QCM question and with a
\* threshold of 0 or 1; nothing was passed yet
InitModules ==
    /\ app \in {"app.main", "main"}
    /\ modules = (1 :> [classroom_id |-> TheClassroom, prerequisite_module_id |-> None])
    /\ \E min_score \in [{1, 2} -> {0, 1}] :
          quizzes = [q \in {1, 2} |->
                       [module_id |-> 1, prerequisite_quiz_id |-> None,
                        min_score_to_unlock_next |-> min_score[q], is_active |-> TRUE]]
    /\ questions = [q \in {1, 2} |->
                      [quiz_id |-> q, type |-> "QCM",
                       options |-> {[id |-> 1, is_correct |-> TRUE],
                                    [id |-> 2, is_correct |-> FALSE]}]]
    /\ enrolled = {<<TheClassroom, "alice">>}
    /\ Fresh
    /\ quiz_sessions = <<>>
    /\ session_answers = {}
    /\ leitner_sessions = <<>>
    /\ leitner_session_answers = {}
    /\ now = 1
    /\ resp = NoResp
    /\ inflight = NoRequests
    /\ boxes_by_level = [l \in Levels |-> <<>>]
    /\ count = 5
    /\ selected = <<>>
    /\ sched_pc = "call"

\* the student answers the question of the quiz of her session
AnswerOwnQuiz(deployed) ==
    /\ app = deployed
    /\ \E user \in Users, session_id \in DOMAIN quiz_sessions,
          selected_option_id \in {1, 2} :
        LET question_id == quiz_sessions[session_id].quiz_id
        IN  IF deployed = "app.main"
            THEN submit_answer(session_id, question_id, AnswerData(selected_option_id), user)
            ELSE legacy_submit_answer(session_id, question_id,
                                      ChoiceDto(selected_option_id), user)

\* up to three sessions are started: one per quiz and a repeated one
StartForModule ==
    /\ Len(quiz_sessions) <= MaxSessions
    /\ \E user \in Users, quiz_id \in DOMAIN quizzes :
        IF app = "app.main" THEN start_session(quiz_id, user)
        ELSE legacy_start_session(quiz_id, user)

NextModules ==
    \/ StartForModule
    \/ AnswerOwnQuiz("app.main") \/ AnswerOwnQuiz("main")
    \/ FinishSession \/ LegacyFinishSession

SpecModules == InitModules /\ [][NextModules]_vars

\* the quizzes of module m with a threshold above zero
GatingQuizzes(m) ==
    {q \in DOMAIN quizzes : quizzes[q].module_id = m /\ quizzes[q].min_score_to_unlock_next > 0}

\* after an accepted passing finish the module of the quiz has a completion
\* row exactly when each of its gating quizzes has one; no (student, module)
\* pair ever has two rows
ModuleRecorded ==
    /\ resp'.op \in FinishOps /\ Accepted(resp') /\ quiz_sessions'[resp'.session_id].passed
       => LET m == quizzes[quiz_sessions[resp'.session_id].quiz_id].module_id
              user == resp'.user
          IN  (CountRows(completed_modules', <<user, m>>) > 0)
                = (\A q \in GatingQuizzes(m) : CountRows(completed_quizzes', <<user, q>>) > 0)
    /\ \A m \in DOMAIN modules, user \in Users :
          CountRows(completed_modules', <<user, m>>) <= 1

\* C23: a passing finish records the completion of the module iff, with this
\* quiz's completion recorded, every quiz of the module with a threshold
\* above zero has a completion record; with a gating quiz left the module is
\* not recorded, and repeated passes never record it twice
C23_ModuleCompletedIffGatingQuizzesCompleted == [][ModuleRecorded]_vars

\* the same for the service layer alone, and for modules that have a gating
\* quiz under either deployment
ModuleRecordedBy(ops, gated) ==
    /\ resp'.op \in ops /\ Accepted(resp') /\ quiz_sessions'[resp'.session_id].passed
    /\ gated => GatingQuizzes(quizzes[quiz_sessions[resp'.session_id].quiz_id].module_id) # {}
    => ModuleRecorded

ServiceModuleCompletion == [][ModuleRecordedBy({"finish_session"}, FALSE)]_vars
GatedModuleCompletion == [][ModuleRecordedBy(FinishOps, TRUE)]_vars


\* ------------------------------------------------------------------------
\* Box Entries of the questions added to a quiz after it was passed
\* ------------------------------------------------------------------------
\* routes/question.py create_question: no Box Entry is written
legacy_create_question(quiz_id, request, user) ==
    LET op == "legacy_create_question"
        question_id == CHOOSE id \in 1..MaxQuestions : id \notin DOMAIN questions
        reject(status, detail) == SessionResp(op, user, None, None, status, detail)
    IN  /\ IF quiz_id \notin DOMAIN quizzes
           THEN resp' = reject(HTTP_404_NOT_FOUND, "Quiz not found") /\ UNCHANGED questions
           ELSE IF ~is_classroom_teacher(modules[quizzes[quiz_id].module_id].classroom_id, user)
           THEN /\ resp' = reject(HTTP_403_FORBIDDEN, "Classroom teacher access required")
                /\ UNCHANGED questions
           ELSE IF request.options = {}
           THEN /\ resp' = reject(HTTP_400_BAD_REQUEST, "Options required for QCM/VRAI_FAUX")
                /\ UNCHANGED questions
           ELSE /\ questions' = [q \in DOMAIN questions \cup {question_id} |->
                                   IF q = question_id
                                   THEN [quiz_id |-> quiz_id, type |-> request.type,
                                         options |-> request.options]
                                   ELSE questions[q]]
                /\ resp' = SessionResp(op, user, None, question_id, HTTP_201_CREATED, "")
        /\ UNCHANGED <<app, enrolled, quizzes, modules, schedVars, inflight, dataVars, now>>

\* POST /api/quizzes/{quiz_id}/questions of the legacy routes, sent by the
\* professor
LegacyCreateQuestion ==
    /\ app = "main"
    /\ Cardinality(DOMAIN questions) < MaxQuestions
    /\ \E quiz_id \in DOMAIN quizzes, request \in QuestionPayloads :
        legacy_create_question(quiz_id, request, TheProfessor)

\* either application is deployed over the catalogue of InitChanges
InitSeeding ==
    /\ app \in {"app.main", "main"}
    /\ modules = (1 :> [classroom_id |-> TheClassroom, prerequisite_module_id |-> None])
    /\ quizzes = (1 :> [module_id |-> 1, prerequisite_quiz_id |-> None,
                        min_score_to_unlock_next |-> 1, is_active |-> TRUE])
    /\ questions = [q \in {1} |->
                      [quiz_id |-> 1, type |-> "QCM",
                       options |-> {[id |-> 1, is_correct |-> TRUE],
                                    [id |-> 2, is_correct |-> FALSE]}]]
    /\ enrolled = {<<TheClassroom, "alice">>}
    /\ Fresh \/ Reviewed(3)
    /\ quiz_sessions = <<>>
    /\ session_answers = {}
    /\ leitner_sessions = <<>>
    /\ leitner_session_answers = {}
    /\ now = 1
    /\ resp = NoResp
    /\ inflight = NoRequests
    /\ boxes_by_level = [l \in Levels |-> <<>>]
    /\ count = 5
    /\ selected = <<>>
    /\ sched_pc = "call"

NextSeeding ==
    \/ StartSession \/ SubmitAnswer \/ FinishSession \/ CreateQuestion
    \/ LegacyStartSession \/ LegacySubmitAnswer \/ LegacyFinishSession
    \/ LegacyCreateQuestion

\* standard sessions of either application while the professor adds questions
SpecSeeding == InitSeeding /\ [][NextSeeding]_vars

\* a passing finish answered by one of `ops` leaves a Box Entry of the student
\* for every question the quiz holds at that moment
PassSeedsEveryQuestion(ops) ==
    (resp'.op \in ops /\ resp'.status = HTTP_200_OK
     /\ quiz_sessions'[resp'.session_id].passed = TRUE)
    => LET session == quiz_sessions'[resp'.session_id]
       IN  \A q \in DOMAIN questions' :
              questions'[q].quiz_id = session.quiz_id
              => \E b \in leitner_boxes' : /\ b.classroom_id = session.classroom_id
                                           /\ b.student_id = session.student_id
                                           /\ b.question_id = q

\* C24: after every passing finish each question the quiz holds at that
\* moment has a Box Entry of the student, also on a later pass when questions
\* were added to the quiz after the first pass
C24_EveryPassSeedsTheQuestionsOfTheQuiz == [][PassSeedsEveryQuestion(FinishOps)]_vars

\* the service layer seeds on every pass
ServicePassSeedsEveryQuestion == [][PassSeedsEveryQuestion({"finish_session"})]_vars

\* a later pass of the service layer seeded a question added after the first
LaterPassSeeded_Witness ==
    /\ resp.op = "finish_session" /\ resp.status = HTTP_200_OK
    /\ quiz_sessions[resp.session_id].passed = TRUE
    /\ Cardinality(DOMAIN questions) = 2
    /\ \E b \in leitner_boxes : b.box_level = 3
    /\ Cardinality(leitner_boxes) = 2


\* ------------------------------------------------------------------------
\* The summary of a finished Leitner session
\* ------------------------------------------------------------------------
LeitnerFinishOps == {"finish_leitner_session", "legacy_finish_leitner_session"}

\* the summary written by a Leitner finish answered by one of `ops` agrees
\* with the answers of the session and with the Box Entries after the finish
SummaryAgrees(ops) ==
    (resp'.op \in ops /\ resp'.status = HTTP_200_OK)
    => LET session == leitner_sessions'[resp'.session_id]
           answers == {a \in leitner_session_answers' : a.session_id = resp'.session_id}
       IN  /\ session.promoted = Cardinality({a \in answers : a.new_box > a.previous_box})
           /\ session.demoted = Cardinality({a \in answers : a.new_box < a.previous_box})
           /\ session.correct_answers + session.wrong_answers = Cardinality(answers)
           /\ \A a \in answers :
                \E b \in leitner_boxes' : /\ b.classroom_id = session.classroom_id
                                          /\ b.student_id = session.student_id
                                          /\ b.question_id = a.question_id
                                          /\ b.box_level = a.new_box

\* C25: after a Leitner finish promoted, demoted and correct + wrong are the
\* counts over the session's answers and the live Box Entry of every answered
\* question is at the answer's newBox, also when the student's Box Entries
\* were deleted while the session was open
C25_LeitnerSummaryAgreesWithAnswersAndBoxes == [][SummaryAgrees(LeitnerFinishOps)]_vars

\* while nothing is deleted the summary of the service layer agrees
ServiceSummaryAgrees == [][SummaryAgrees({"finish_leitner_session"})]_vars


\* ------------------------------------------------------------------------
\* The steps that write the level of a Box Entry
\* ------------------------------------------------------------------------
\* the Box Entry of the same student, classroom and question after the step
SameEntry(b, c) ==
    /\ c.classroom_id = b.classroom_id
    /\ c.student_id = b.student_id
    /\ c.question_id = b.question_id

\* a Leitner submit answered by one of `ops` writes no Box Entry, and a step
\* that changes the level of an existing Box Entry is a Leitner finish
LevelsWrittenAtFinish(ops, finish_ops) ==
    /\ resp'.op \in ops => leitner_boxes' = leitner_boxes
    /\ (\E b \in leitner_boxes, c \in leitner_boxes' :
           SameEntry(b, c) /\ c.box_level # b.box_level)
       => resp'.op \in finish_ops

\* C26: submitting an answer in a Leitner session leaves the level and
\* lastReviewedAt of every Box Entry unchanged; the level of an existing Box
\* Entry changes only in the Leitner finish step
C26_LeitnerSubmitLeavesBoxesUnchanged ==
    [][LevelsWrittenAtFinish({"submit_leitner_answer", "legacy_submit_leitner_answer"},
                             LeitnerFinishOps)]_vars

\* the service layer writes the level at finish only
ServiceSubmitLeavesBoxesUnchanged ==
    [][LevelsWrittenAtFinish({"submit_leitner_answer"}, {"finish_leitner_session"})]_vars

\* an answer was accepted by the service layer in a Leitner session and the
\* Box Entry of its question is still at the level it had before
LeitnerSubmitKeptLevel_Witness ==
    /\ resp.op = "submit_leitner_answer" /\ resp.status = HTTP_200_OK
    /\ \E a \in leitner_session_answers, b \in leitner_boxes :
          /\ a.session_id = resp.session_id /\ a.question_id = resp.question_id
          /\ b.question_id = a.question_id
          /\ b.box_level = a.previous_box /\ a.new_box # a.previous_box


\* ------------------------------------------------------------------------
\* The box level a Leitner session works from
\* ------------------------------------------------------------------------
\* a Leitner session that is open before and after the step finds the levels
\* of its student's Box Entries unchanged by the step
LevelFrozenWhileOpen ==
    \A i \in DOMAIN leitner_sessions :
        (~Finished(leitner_sessions[i]) /\ ~Finished(leitner_sessions'[i]))
        => \A b \in leitner_boxes :
              (b.student_id = leitner_sessions[i].student_id
               /\ b.classroom_id = leitner_sessions[i].classroom_id)
              => \A c \in leitner_boxes' : SameEntry(b, c) => c.box_level = b.box_level

\* the answer stored by an accepted submit carries the level its question has
\* at that moment
PreviousBoxIsLiveLevel ==
    (resp'.op = "submit_leitner_answer" /\ resp'.status = HTTP_200_OK)
    => \A a \in leitner_session_answers' \ leitner_session_answers :
          \E b \in leitner_boxes : /\ b.question_id = a.question_id
                                   /\ b.student_id = resp'.user
                                   /\ b.box_level = a.previous_box

\* C27: the level of a Box Entry is not changed between the start of a Leitner
\* session and that session's finish, so that the previousBox of every answer,
\* read when the answer is submitted, is the level the question had when the
\* session was started; also when two Leitner sessions of the same student
\* that hold the same question overlap
C27_PreviousBoxIsLevelAtSessionStart ==
    [][LevelFrozenWhileOpen /\ PreviousBoxIsLiveLevel]_vars

\* previousBox is read from the live Box Entry when the answer is submitted
PreviousBoxReadAtSubmit == [][PreviousBoxIsLiveLevel]_vars

\* an answer whose previousBox is the level written by the finish of another
\* session of the same student
StalePreviousBox_Witness ==
    \E a \in leitner_session_answers, e \in leitner_session_answers :
       /\ a.session_id # e.session_id /\ a.question_id = e.question_id
       /\ a.previous_box = e.new_box /\ e.new_box # e.previous_box


\* ------------------------------------------------------------------------
\* The length of a prerequisite chain
\* ------------------------------------------------------------------------
\* the longest chain create_quiz accepts: a quiz and MAX_PREREQUISITE_DEPTH
\* quizzes below it
MaxChain == MAX_PREREQUISITE_DEPTH + 1

\* the quizzes first .. first + n - 1, each created with the quiz created
\* before it as prerequisite
Chain(first, n) ==
    [id \in first..(first + n - 1) |->
       [module_id |-> 1,
        prerequisite_quiz_id |-> IF id = first THEN None ELSE id - 1,
        min_score_to_unlock_next |-> 1, is_active |-> TRUE]]

\* two chains of quizzes were created in module 1
InitChains ==
    /\ \E n \in 1..MaxChain, m \in 1..MaxChain : quizzes = Chain(1, n) @@ Chain(n + 1, m)
    /\ modules = (1 :> [classroom_id |-> TheClassroom, prerequisite_module_id |-> None])
    /\ resp = NoResp
    /\ inflight = NoRequests
    /\ boxes_by_level = [l \in Levels |-> <<>>]
    /\ count = 5
    /\ selected = <<>>
    /\ sched_pc = "call"
    /\ NoSessionData

\* PATCH /quizzes/{id}: a quiz without prerequisite is put under a quiz
\* that no quiz requires
AttachChain ==
    \E quiz_id \in {q \in DOMAIN quizzes : ~Truthy(quizzes[q].prerequisite_quiz_id)},
       prerequisite_quiz_id \in {t \in DOMAIN quizzes :
                                   \A q \in DOMAIN quizzes :
                                      quizzes[q].prerequisite_quiz_id # t} :
        update_quiz(quiz_id, prerequisite_quiz_id, None, None)

\* updates that join chains of quizzes
SpecChains == InitChains /\ [][AttachChain]_vars

\* no row of the table has more than MAX_PREREQUISITE_DEPTH rows below it
ChainsWithinDepth(pre) ==
    \A id \in DOMAIN pre : Ancestor(pre, id, MAX_PREREQUISITE_DEPTH + 1) = None

\* C28: after any sequence of quiz and module create and update operations no
\* prerequisite chain is longer than MAX_PREREQUISITE_DEPTH, also after an
\* update that puts the root of a chain under the tip of another chain
C28_NoChainLongerThanMaxDepth ==
    ChainsWithinDepth(QuizPrereqs(quizzes)) /\ ChainsWithinDepth(ModulePrereqs(modules))

\* the chain above the updated quiz is what update_quiz bounds: after an
\* accepted update the updated quiz has at most MAX_PREREQUISITE_DEPTH quizzes
\* below it
UpdatedQuizWithinDepth ==
    (resp.op = "update_quiz" /\ resp.status = HTTP_200_OK)
    => Ancestor(QuizPrereqs(quizzes), resp.id, MAX_PREREQUISITE_DEPTH + 1) = None

\* an update was rejected because the walk from the updated quiz went deeper
\* than MAX_PREREQUISITE_DEPTH
DepthRejected_Witness ==
    /\ resp.op = "update_quiz" /\ CircularDependency(resp) /\ resp.walked
    /\ ~Requires(QuizPrereqs(quizzes), resp.prereq, resp.id)


\* ------------------------------------------------------------------------
\* The two commits of finish_session
\* ------------------------------------------------------------------------
\* in the committed tables every standard session that is COMPLETED and
\* passed has the completion record of its student and quiz
PassedSessionsAreRecorded ==
    \A i \in DOMAIN quiz_sessions :
       (quiz_sessions[i].status = "COMPLETED" /\ quiz_sessions[i].passed = TRUE)
       => HasCompletedQuiz(completed_quizzes, quiz_sessions[i].student_id,
                           quiz_sessions[i].quiz_id)

\* a finish whose completion step failed left its session IN_PROGRESS
FailedFinishLeavesSessionOpen ==
    \A r \in DOMAIN inflight :
       (/\ At(r, "finish_session", "done")
        /\ inflight[r].response.status = HTTP_500_INTERNAL_SERVER_ERROR)
       => quiz_sessions[inflight[r].session_id].status = "IN_PROGRESS"

\* C29: finish_session changes the status of the session and records the
\* completion atomically: a finish whose completion step fails leaves the
\* session IN_PROGRESS, and the tables never hold a standard session that is
\* COMPLETED with passed = true without the completion record of its student
\* and quiz (the roster does not change)
C29_FinishAndCompletionAreAtomic ==
    PassedSessionsAreRecorded /\ FailedFinishLeavesSessionOpen


\* ------------------------------------------------------------------------
\* Box Entries after a student was removed or a question deleted
\* ------------------------------------------------------------------------
\* every Box Entry is of a question that exists
BoxesOfExistingQuestions == \A b \in leitner_boxes : b.question_id \in DOMAIN questions

\* every Box Entry is of a student enrolled in the classroom of the entry
BoxesOfEnrolledStudents ==
    \A b \in leitner_boxes : <<b.classroom_id, b.student_id>> \in enrolled

\* an accepted remove_student leaves no Box Entry and no completion record of
\* the student; an accepted delete_question leaves no Box Entry and no answer
\* of the question
DeletionsCascade ==
    /\ (resp'.op = "remove_student" /\ resp'.status = HTTP_200_OK)
       => /\ \A b \in leitner_boxes' : <<b.classroom_id, b.student_id>> \in enrolled'
          /\ \A u \in Users : <<TheClassroom, u>> \notin enrolled'
                => /\ \A q \in DOMAIN quizzes : ~HasCompletedQuiz(completed_quizzes', u, q)
                   /\ \A m \in DOMAIN modules : CountRows(completed_modules', <<u, m>>) = 0
    /\ (resp'.op = "delete_question" /\ resp'.status = HTTP_200_OK)
       => \A row \in leitner_boxes' \cup session_answers' \cup leitner_session_answers' :
             row.question_id # resp'.question_id

\* a finish of a session whose student is no longer enrolled writes no Box
\* Entry and no completion record
FinishAfterRemovalRecordsNothing ==
    (/\ resp'.op = "finish_session"
     /\ resp'.session_id \in DOMAIN quiz_sessions
     /\ <<quiz_sessions[resp'.session_id].classroom_id, resp'.user>> \notin enrolled)
    => /\ leitner_boxes' = leitner_boxes
       /\ completed_quizzes' = completed_quizzes
       /\ completed_modules' = completed_modules

\* C30: whatever the interleaving of session start, submit and finish with
\* remove_student and delete_question, every Box Entry is of an existing
\* question and of a student enrolled in the entry's classroom; the removal
\* of a student deletes the student's Box Entries and completion records, the
\* deletion of a question deletes its Box Entries and answers, and a session
\* started before the removal and finished after it creates no Box Entry and
\* no completion record
C30_BoxEntriesReferToLiveRows ==
    /\ [](BoxesOfExistingQuestions /\ BoxesOfEnrolledStudents)
    /\ [][DeletionsCascade /\ FinishAfterRemovalRecordsNothing]_vars

\* the two deletions remove the rows that depend on what is deleted
DeletionsRemoveDependentRows == []BoxesOfExistingQuestions /\ [][DeletionsCascade]_vars

\* a student with Box Entries and completion records was removed
StudentRemoved_Witness ==
    /\ resp.op = "remove_student" /\ resp.status = HTTP_200_OK
    /\ leitner_boxes = {} /\ completed_quizzes = <<>>
    /\ quiz_sessions # <<>>

====
